---- MODULE Spec2Model ----
(***************************************************************************)
(* TechMentor-AI: the retrieval-augmented generation pipeline.             *)
(*   src/src/rag/retriever.py      Retriever.retrieve, format_for_prompt   *)
(*   src/src/rag/generator.py      Generator.is_content_relevant,          *)
(*                                  perform_dynamic_search,                 *)
(*                                  generate_response                       *)
(*   src/src/data_collection/dynamic_search.py  DynamicSearchEngine         *)
(*   src/src/vector_db/chroma_db.py              ChromaDBManager.search     *)
(*   src/src/llm/model.py                        LocalLLM.generate          *)
(* Python str values are TLA+ strings (Len, \o and SubSeq act on them as    *)
(* len, + and slicing do).  An optional value is a sequence of length <= 1: *)
(* None is <<>> and the value v is <<v>>.                                   *)
(***************************************************************************)
EXTENDS Integers, Sequences, FiniteSets, TLC

VARIABLES
    config,           \* Generator/Retriever configuration (rag section of config.yaml)
    index,            \* the vector collection, in the ranking order of the query
    web,              \* what the network answers for the page fetch of a URL
    question,         \* generate_response's / retrieve's argument
    filters,          \* retrieve's optional filters argument
    pc,               \* position inside the running call
    retrieved_docs,   \* generate_response: retrieved_docs
    sources,          \* generate_response: sources
    relevant,         \* value returned by is_content_relevant, None until called
    search_results,   \* perform_dynamic_search: search_results
    result_i,         \* perform_dynamic_search: loop position (1-based) in search_results
    all_content,      \* perform_dynamic_search: all_content
    dynamic_content,  \* generate_response: dynamic_content (None or a string)
    context,          \* generate_response: context (None until assigned)
    prompt,           \* generate_response: prompt (None until built)
    response,         \* the returned envelope (None until the call returns)
    calls,            \* collaborator calls made so far, in order
    faults,           \* the calls among them whose request or model run failed inside
    chunker,          \* TextChunker configuration (preprocessing section of config.yaml)
    text,             \* _chunk_text's text argument
    chunks,           \* _chunk_text: chunks (the returned list)
    current_chunk,    \* _chunk_text: current_chunk when the loop has ended
    net,              \* the answers the search page request can get
    model_loaded,     \* LocalLLM: self.model is not None (shared by all calls)
    me,               \* number of the generate_response call that is running
    other,            \* the locals of a second call while it is not running, or None
    formatted_response, \* format_response_with_sources: the text returned, or None
    sources_html,     \* render_sources: the markup written, or None
    input_dir,        \* process_files: the folders under self.input_dir
    folder_i,         \* process_files: number of folders the outer loop has passed
    file_i,           \* process_files: number of names the inner loop has passed
    all_chunks,       \* process_files: all_chunks
    batch_pc,         \* process_files: where the batch is
    args,             \* run.py main: the parsed command line
    run_pc,           \* run.py main: the stage main is in front of
    main_chunks,      \* run.py main: chunks
    embedded_chunks,  \* run.py main: embedded_chunks
    stage_log,        \* run.py main: the stage functions called, with their argument
    disk              \* the raw data and the saved embeddings file the run finds

\* the state of TextChunker._chunk_text
chunkVars == <<chunker, text, chunks, current_chunk>>

\* the outputs of the two display paths
displayVars == <<formatted_response, sources_html>>

\* TextChunker.process_files
batchVars == <<input_dir, folder_i, file_i, all_chunks, batch_pc>>

\* run.py main
runVars == <<args, run_pc, main_chunks, embedded_chunks, stage_log, disk>>

\* what a second call of generate_response adds
callVars == <<net, me, other>>

vars == <<config, index, web, question, filters, pc, retrieved_docs, sources,
          relevant, search_results, result_i, all_content, dynamic_content,
          context, prompt, response, calls, faults, chunkVars, callVars,
          model_loaded, displayVars, batchVars, runVars>>

-----------------------------------------------------------------------------
(* Bounds of the model *)

\* largest number of documents the collection holds
MaxDocs == 2
\* largest number of result blocks (div.g) on a search page
MaxBlocks == 3
\* largest number of tokens a text given to the chunker is made of
MaxTokens == 5

(* Program constants *)

\* generator.py:48 total_content_length < 500
RelevanceThreshold == 500
\* generator.py:77 max_length = 4000
max_length == 4000
\* generator.py:61 search(question, num_results=3)
num_results == 3
\* retriever.py:23 top_k default
DefaultTopK == 5
\* retriever.py:70 "-" * 40
RuleWidth == 40
\* chunker.py:18 chunk_size default
DefaultChunkSize == 500
\* chunker.py:19 chunk_overlap default
DefaultChunkOverlap == 50
\* chunker.py:20 min_chunk_length default
DefaultMinChunkLength == 100

-----------------------------------------------------------------------------
(* Python values *)

None == <<>>
Some(v) == <<v>>
IsNone(o) == o = <<>>
Val(o) == o[1]

Min(a, b) == IF a < b THEN a ELSE b

RECURSIVE Rep(_, _)
\* s * n
Rep(s, n) ==
    IF n <= 0 THEN ""
    ELSE LET h == Rep(s, n \div 2)
         IN  IF n % 2 = 0 THEN h \o h ELSE h \o h \o s

\* str(n) for the small naturals the pipeline formats
RECURSIVE ToStr(_)
ToStr(n) ==
    LET digit(d) == SubSeq("0123456789", d + 1, d + 1)
    IN  IF n < 10 THEN digit(n) ELSE ToStr(n \div 10) \o digit(n % 10)

\* s[:n]
Prefix(s, n) == SubSeq(s, 1, Min(n, Len(s)))
\* s[n:] (0-based n)
Suffix(s, n) == SubSeq(s, n + 1, Len(s))
\* s.startswith(p)
StartsWith(s, p) == Len(s) >= Len(p) /\ SubSeq(s, 1, Len(p)) = p

RECURSIVE FindFrom(_, _, _)
\* s.find(p, i) with 0-based positions, -1 when p does not occur
FindFrom(s, p, i) ==
    IF i + Len(p) > Len(s) THEN -1
    ELSE IF SubSeq(s, i + 1, i + Len(p)) = p THEN i
    ELSE FindFrom(s, p, i + 1)

\* p in s
Contains(s, p) == FindFrom(s, p, 0) >= 0

RECURSIVE Split(_, _)
\* s.split(sep)
Split(s, sep) ==
    LET k == FindFrom(s, sep, 0)
    IN  IF k < 0 THEN <<s>>
        ELSE <<Prefix(s, k)>> \o Split(Suffix(s, k + Len(sep)), sep)

RECURSIVE Join(_, _)
\* sep.join(parts)
Join(sep, parts) ==
    IF Len(parts) = 0 THEN ""
    ELSE IF Len(parts) = 1 THEN parts[1]
    ELSE parts[1] \o sep \o Join(sep, Tail(parts))

RECURSIVE SumLen(_)
\* sum(len(doc["text"]) for doc in docs)
SumLen(docs) ==
    IF Len(docs) = 0 THEN 0 ELSE Len(docs[1].text) + SumLen(Tail(docs))

\* Python truthiness of an optional string
Truthy(o) == ~IsNone(o) /\ Val(o) # ""

-----------------------------------------------------------------------------
(* Literals of the source *)

NoInfo == "No relevant information found."
NoWebInfo == "No relevant information found from web search."
WebHeading == "\n\nADDITIONAL WEB SEARCH RESULTS:\n"
TruncationMarker == "... [content truncated]"
DynamicTag == "Dynamic Web Search"
Unknown == "Unknown"

-----------------------------------------------------------------------------
(* ChromaDBManager.search, chroma_db.py:83-101 *)

\* mutant: n_results is not passed to the query
VectorSearch_Unbounded(idx, top_k) ==
    [i \in 1..Len(idx) |->
        [text |-> idx[i].text, metadata |-> idx[i].metadata,
         id |-> idx[i].id, distance |-> idx[i].distance]]

\* collection.query(n_results=top_k): the top_k best-ranked entries, in rank
\* order, each formatted as {text, metadata, id, distance}
VectorSearch(idx, top_k) ==
    [i \in 1..Min(top_k, Len(idx)) |->
        [text |-> idx[i].text, metadata |-> idx[i].metadata,
         id |-> idx[i].id, distance |-> idx[i].distance]]

-----------------------------------------------------------------------------
(* Retriever, retriever.py *)

\* retriever.py:43-47: the inner loop over filters.items()
DocMatches(doc, f) ==
    \A key \in DOMAIN f :
        ~(key \in DOMAIN doc.metadata /\ doc.metadata[key] # f[key])

\* retriever.py:31-53
retrieve(idx, query, flt, top_k) ==
    LET results == VectorSearch(idx, top_k)
        keep(doc) == DocMatches(doc, Val(flt))
    IN  IF ~IsNone(flt) /\ DOMAIN Val(flt) # {} /\ Len(results) > 0
        THEN SelectSeq(results, keep)
        ELSE results

\* mutant: the marker shows the 0-based loop index
DocBlock_ZeroBased(i, doc) ==
    "[Document " \o ToStr(i - 1) \o "]\n"
    \o doc.text \o "\n"
    \o (IF "source" \in DOMAIN doc.metadata /\ doc.metadata["source"] # ""
        THEN "Source: " \o doc.metadata["source"] \o "\n"
        ELSE "")
    \o "\n" \o Rep("-", RuleWidth) \o "\n\n"

\* retriever.py:63-70: the block of document number i
DocBlock(i, doc) ==
    "[Document " \o ToStr(i) \o "]\n"
    \o doc.text \o "\n"
    \o (IF "source" \in DOMAIN doc.metadata /\ doc.metadata["source"] # ""
        THEN "Source: " \o doc.metadata["source"] \o "\n"
        ELSE "")
    \o "\n" \o Rep("-", RuleWidth) \o "\n\n"

RECURSIVE DocBlocks(_, _)
\* retriever.py:62 the loop, from document number i on
DocBlocks(results, i) ==
    IF i > Len(results) THEN ""
    ELSE DocBlock(i, results[i]) \o DocBlocks(results, i + 1)

\* retriever.py:55-72
format_for_prompt(results) ==
    IF Len(results) = 0 THEN NoInfo
    ELSE "RELEVANT INFORMATION:\n\n" \o DocBlocks(results, 1)

-----------------------------------------------------------------------------
(* DynamicSearchEngine, dynamic_search.py *)

\* dynamic_search.py:46-48
ResultLink(href) ==
    IF Truthy(href) /\ StartsWith(Val(href), "/url?q=")
    THEN Some(Split(Split(Val(href), "/url?q=")[2], "&")[1])
    ELSE href

RECURSIVE ParseBlocks(_)
\* dynamic_search.py:38-55: a block missing its h3, a or snippet is skipped
ParseBlocks(blocks) ==
    IF Len(blocks) = 0 THEN <<>>
    ELSE LET b == blocks[1]
         IN  (IF ~IsNone(b.title) /\ ~IsNone(b.link) /\ ~IsNone(b.snippet)
              THEN <<[title |-> Val(b.title), url |-> ResultLink(Val(b.link)),
                      snippet |-> Val(b.snippet)]>>
              ELSE <<>>)
             \o ParseBlocks(Tail(blocks))

\* how a call ends: it returns a value or an exception leaves it
Returned(v) == [raised |-> FALSE, value |-> v]
Raised(e) == [raised |-> TRUE, error |-> e]

\* dynamic_search.py:31-58, the body of the try: resp is what the search page
\* request yields; requests.get or raise_for_status raises when it failed
search_Try(resp, n) ==
    IF ~resp.ok THEN Raised(resp.err)
    ELSE Returned(ParseBlocks(SubSeq(resp.blocks, 1, Min(n, Len(resp.blocks)))))

\* search without the except clause of dynamic_search.py:60-62
search_Propagates(resp, n) == search_Try(resp, n)

\* search without the slice of dynamic_search.py:38
search_NoFanOut(resp, n) ==
    IF ~resp.ok THEN Returned(<<>>) ELSE Returned(ParseBlocks(resp.blocks))

\* dynamic_search.py:20-62
search(resp, n) ==
    LET r == search_Try(resp, n)
    IN  IF r.raised THEN Returned(<<>>) ELSE r

\* dynamic_search.py:68-106, the body of the try: page is what the fetch of
\* url yields; page.text is the whitespace-collapsed text of the selected
\* elements (line 98)
extract_content_Try(url, page) ==
    CASE page.status = "error" -> Raised(page.err)
      [] page.status = "nobody" ->
            Returned("Could not extract meaningful content from " \o url)
      [] OTHER -> Returned("Content from " \o url \o ":\n\n" \o page.text)

\* extract_content without the except clause of dynamic_search.py:108-110
extract_content_Propagates(url, page) == extract_content_Try(url, page)

\* dynamic_search.py:64-110
extract_content(url, page) ==
    LET r == extract_content_Try(url, page)
    IN  IF r.raised THEN Returned("Error extracting content: " \o r.error) ELSE r

-----------------------------------------------------------------------------
(* LocalLLM.generate, llm/model.py:50-67 *)

ModelNotLoaded == "Error: Model could not be loaded. Please check the logs."

\* model.py:57-64, the body of the try: the model is run on the prompt
generate_Try(llm, p) ==
    IF llm.fails THEN Raised(llm.err) ELSE Returned(llm.output)

\* generate without the except clause of model.py:65-67
generate_Propagates(llm, p) ==
    IF ~llm.loads THEN Returned(ModelNotLoaded) ELSE generate_Try(llm, p)

\* model.py:50-67: llm.loads tells whether the model is loaded or load_model
\* succeeds (lines 52-55)
generate(llm, p) ==
    IF ~llm.loads THEN Returned(ModelNotLoaded)
    ELSE LET r == generate_Try(llm, p)
         IN  IF r.raised
             THEN Returned("Error during text generation: " \o r.error)
             ELSE r

-----------------------------------------------------------------------------
(* Generator, generator.py *)

\* mutant: the threshold comparison is <= instead of <
is_content_relevant_StrictThreshold(self, q, docs) ==
    IF Len(docs) = 0 THEN FALSE
    ELSE IF Len(docs) < 2 THEN FALSE
    ELSE IF SumLen(docs) <= RelevanceThreshold THEN FALSE
    ELSE TRUE

\* mutant: the document-count test (line 44) is missing
is_content_relevant_OneDocEnough(self, q, docs) ==
    IF Len(docs) = 0 THEN FALSE
    ELSE IF SumLen(docs) < RelevanceThreshold THEN FALSE
    ELSE TRUE

\* generator.py:37-54
is_content_relevant(self, q, docs) ==
    IF Len(docs) = 0 THEN FALSE
    ELSE IF Len(docs) < 2 THEN FALSE
    ELSE IF SumLen(docs) < RelevanceThreshold THEN FALSE
    ELSE TRUE

\* mutant: the configuration flag is not consulted
NeedsDynamicSearch_IgnoresFlag(self, q, docs) ==
    ~is_content_relevant(self, q, docs)

\* mutant: the search branch is taken whatever the gate says
NeedsDynamicSearch_Always(self, q, docs) == TRUE

\* generator.py:94 the condition of the dynamic-search branch
NeedsDynamicSearch(self, q, docs) ==
    self.dynamic_search_enabled /\ ~is_content_relevant(self, q, docs)

\* generator.py:69 the guard of the extraction
HasUsableUrl(result) == "url" \in DOMAIN result /\ Truthy(result.url)

\* generator.py:71 the labelled excerpt of result number i (0-based i)
SourceEntry(i, url, content) ==
    "[Source " \o ToStr(i + 1) \o ": " \o url \o "]\n" \o content \o "\n"

\* mutant: the length comparison is >= instead of >
Truncate_AtOrAbove(combined_content) ==
    IF Len(combined_content) >= max_length
    THEN Prefix(combined_content, max_length) \o TruncationMarker
    ELSE combined_content

\* generator.py:76-81
Truncate(combined_content) ==
    IF Len(combined_content) > max_length
    THEN Prefix(combined_content, max_length) \o TruncationMarker
    ELSE combined_content

\* mutant: the no-results sentinel is not excluded
UseDynamic_AnyText(dyn) == Truthy(dyn)

\* generator.py:98 the condition of the merge
UseDynamic(dyn) == Truthy(dyn) /\ Val(dyn) # NoWebInfo

\* mutant: the sentinel test (line 101) is missing
MergeContext_AlwaysAppend(local, dyn) == local \o WebHeading \o dyn

\* mutant: the dynamic content always replaces the local context
MergeContext_AlwaysReplace(local, dyn) == dyn

\* generator.py:100-104
MergeContext(local, dyn) ==
    IF local = NoInfo THEN dyn ELSE local \o WebHeading \o dyn

\* generator.py:91
CollectSources(docs) ==
    [i \in 1..Len(docs) |->
        IF "source" \in DOMAIN docs[i].metadata
        THEN docs[i].metadata["source"] ELSE Unknown]

\* generator.py:141
UsedDynamicSearch(dyn) == ~IsNone(dyn)

\* the outcome r with pre put before its value
After(pre, r) == IF r.raised THEN r ELSE Returned(pre \o r.value)

RECURSIVE FormatTemplate(_, _, _)
\* generator.py:115-118 str.format(context=ctx, question=q): "{{" and "}}" give
\* one brace, "{context}" and "{question}" give the argument, any other field
\* raises KeyError or IndexError, an unmatched brace raises ValueError; the
\* arguments are not scanned again
FormatTemplate(t, ctx, q) ==
    LET ko == FindFrom(t, "{", 0)
        kc == FindFrom(t, "}", 0)
    IN  IF ko < 0 /\ kc < 0 THEN Returned(t)
        ELSE IF kc >= 0 /\ (ko < 0 \/ kc < ko)
        THEN IF SubSeq(t, kc + 2, kc + 2) = "}"
             THEN After(Prefix(t, kc) \o "}", FormatTemplate(Suffix(t, kc + 2), ctx, q))
             ELSE Raised("ValueError: Single '}' encountered in format string")
        ELSE IF SubSeq(t, ko + 2, ko + 2) = "{"
        THEN After(Prefix(t, ko) \o "{", FormatTemplate(Suffix(t, ko + 2), ctx, q))
        ELSE LET ke == FindFrom(t, "}", ko)
                 name == SubSeq(t, ko + 2, ke)
             IN  IF ke < 0
                 THEN Raised("ValueError: expected '}' before end of string")
                 ELSE IF name = "context"
                 THEN After(Prefix(t, ko) \o ctx, FormatTemplate(Suffix(t, ke + 1), ctx, q))
                 ELSE IF name = "question"
                 THEN After(Prefix(t, ko) \o q, FormatTemplate(Suffix(t, ke + 1), ctx, q))
                 ELSE Raised("KeyError: " \o name)

\* generator.py:121-131
DefaultPrompt(ctx, q) ==
    "<|system|>\nYou are TechMentor AI, a helpful tech career advisor. Answer the user's question based on the following information:\n"
    \o ctx \o "\n</s>\n\n<|user|>\n" \o q \o "\n</s>\n\n<|assistant|>\n"

\* mutant: one placeholder is enough for the template to be used
BuildPromptText_EitherPlaceholder(template, ctx, q) ==
    IF Contains(template, "{context}") \/ Contains(template, "{question}")
    THEN FormatTemplate(template, ctx, q)
    ELSE Returned(DefaultPrompt(ctx, q))

\* generator.py:113-131
BuildPromptText(template, ctx, q) ==
    IF Contains(template, "{context}") /\ Contains(template, "{question}")
    THEN FormatTemplate(template, ctx, q)
    ELSE Returned(DefaultPrompt(ctx, q))

-----------------------------------------------------------------------------
(* The inputs the model draws from *)

\* sequences over S of length at most n
SeqsUpTo(S, n) == UNION {[1..k -> S] : k \in 0..n}

HalfLen == RelevanceThreshold \div 2

\* collection entries: two of the first reach the threshold, any pair with
\* another stays below it; the third has the empty source the chunker writes
\* for a file without a "Source:" line (chunker.py:87-96)
DocKinds ==
    { [text |-> Rep("a", HalfLen),
       metadata |-> [source |-> "https://example.com/a", source_type |-> "web"],
       distance |-> 12],
      [text |-> Rep("b", HalfLen - 1),
       metadata |-> [source_type |-> "pdf"],
       distance |-> 35],
      [text |-> Rep("c", HalfLen - 1),
       metadata |-> [source |-> "", source_type |-> "youtube"],
       distance |-> 35] }

\* a collection: entry number i has the id "chunk_i"
MkIndex(kinds) ==
    [i \in 1..Len(kinds) |->
        [text |-> kinds[i].text, metadata |-> kinds[i].metadata,
         id |-> "chunk_" \o ToStr(i), distance |-> kinds[i].distance]]

Indexes == {MkIndex(kinds) : kinds \in SeqsUpTo(DocKinds, MaxDocs)}

Urls == {"http://a", "http://b"}

\* the length of page text with which one labelled excerpt is max_length long
FitLen ==
    LET u == "http://a"
    IN  max_length
        - Len(SourceEntry(0, u, extract_content(u, [status |-> "ok", text |-> ""]).value))

\* what the exception of a failed fetch says
FetchErrors == {"timed out", "connection refused"}

\* the fetches a page can answer with: an unreachable one fails each time
\* with some error
Fetch(page) ==
    IF page.status = "error"
    THEN {[status |-> "error", err |-> e] : e \in FetchErrors}
    ELSE {page}

Pages ==
    { [status |-> "error"],
      [status |-> "nobody"],
      [status |-> "ok", text |-> Rep("x", FitLen)],
      [status |-> "ok", text |-> Rep("x", FitLen + 1)],
      [status |-> "ok", text |-> Rep("x", FitLen + 1000)] }

Webs == [Urls -> Pages]

\* result blocks of a search page: complete with a redirect link, complete
\* with a direct link, complete with an anchor that has no href, and one
\* lacking its snippet
BlockKinds ==
    { [title |-> Some("A page"), link |-> Some(Some("/url?q=http://a&sa=U")),
       snippet |-> Some("about a")],
      [title |-> Some("B page"), link |-> Some(Some("http://b")),
       snippet |-> Some("about b")],
      [title |-> Some("No link"), link |-> Some(None), snippet |-> Some("nothing")],
      [title |-> Some("No snippet"), link |-> Some(Some("http://a")), snippet |-> None] }

\* a search page with one result block more than num_results
LongPage ==
    [ok |-> TRUE,
     blocks |-> [i \in 1..(num_results + 1) |->
                    [title |-> Some("Page " \o ToStr(i)),
                     link |-> Some(Some(IF i % 2 = 1 THEN "http://a" ELSE "http://b")),
                     snippet |-> Some("result " \o ToStr(i))]]]

\* the request fails (connection, timeout) or answers with an error status
SearchFailures ==
    {[ok |-> FALSE, err |-> e] : e \in {"connection refused", "429 Too Many Requests"}}

SearchResponses ==
    SearchFailures
    \cup {[ok |-> TRUE, blocks |-> bs] : bs \in SeqsUpTo(BlockKinds, MaxBlocks)}
    \cup {LongPage}

Templates == {"", "Use this:\n{context}\nQuestion: {question}\nAnswer:"}

Configs ==
    [dynamic_search_enabled : BOOLEAN, top_k : {DefaultTopK},
     prompt_template : Templates, min_relevance_score : {"0.6"}]

Questions == {"How do I become a data engineer?"}

LLMs ==
    { [loads |-> TRUE, fails |-> FALSE, output |-> "Start with SQL.", err |-> ""],
      [loads |-> TRUE, fails |-> TRUE, output |-> "", err |-> "out of memory"],
      [loads |-> FALSE, fails |-> FALSE, output |-> "", err |-> ""] }

-----------------------------------------------------------------------------
(* Generator.generate_response, generator.py:83-142, one call *)

\* the locals of a call before its first statement
FreshLocals ==
    /\ retrieved_docs = <<>>
    /\ sources = <<>>
    /\ relevant = None
    /\ search_results = <<>>
    /\ result_i = 0
    /\ all_content = <<>>
    /\ dynamic_content = None
    /\ context = None
    /\ prompt = None
    /\ response = None
    /\ calls = <<>>
    /\ faults = <<>>

\* no text is being chunked
ChunkerIdle ==
    /\ chunker = [chunk_size |-> DefaultChunkSize, chunk_overlap |-> DefaultChunkOverlap,
                  min_chunk_length |-> DefaultMinChunkLength]
    /\ text = ""
    /\ chunks = <<>>
    /\ current_chunk = ""

\* nothing is displayed
DisplayIdle ==
    /\ formatted_response = None
    /\ sources_html = None

\* no batch of files is processed
BatchIdle ==
    /\ input_dir = <<>>
    /\ folder_i = 0
    /\ file_i = 0
    /\ all_chunks = <<>>
    /\ batch_pc = "idle"

\* run.py is not running
RunIdle ==
    /\ args = [collect |-> FALSE, process |-> FALSE, embed |-> FALSE, build_db |-> FALSE,
               check_model |-> FALSE, app |-> FALSE, all |-> FALSE]
    /\ run_pc = "idle"
    /\ main_chunks = None
    /\ embedded_chunks = None
    /\ stage_log = <<>>
    /\ disk = [raw |-> <<>>, embeddings |-> None]

\* one call of generate_response runs, on a Generator whose model is still to
\* be loaded (model.py:26); any search page can come back
OneCall ==
    /\ net = SearchResponses
    /\ model_loaded = FALSE
    /\ me = 1
    /\ other = None

Init ==
    /\ config \in Configs
    /\ index \in Indexes
    /\ web \in Webs
    /\ question \in Questions
    /\ filters = None
    /\ pc = "start"
    /\ FreshLocals
    /\ ChunkerIdle
    /\ OneCall
    /\ DisplayIdle
    /\ BatchIdle
    /\ RunIdle

\* what the query of the collection can end with (chroma_db.py:85-88)
QueryOutcomes == {"ok", "error"}

\* retriever.py:31-53 as generate_response calls it: the method has no try, so
\* an exception of the collection query leaves it
retrieve_Call(idx, query, flt, top_k, db) ==
    IF db = "error" THEN Raised("collection query failed")
    ELSE Returned(retrieve(idx, query, flt, top_k))

\* generator.py:88-92
RetrieveLocal ==
    /\ pc = "start"
    /\ \E db \in QueryOutcomes :
          LET r == retrieve_Call(index, question, filters, config.top_k, db)
          IN  /\ faults' = IF db = "error" THEN Append(faults, "retrieve") ELSE faults
              /\ IF r.raised
                 THEN /\ pc' = "crashed"
                      /\ UNCHANGED <<retrieved_docs, sources>>
                 ELSE /\ retrieved_docs' = r.value
                      /\ sources' = CollectSources(r.value)
                      /\ pc' = "gate"
    /\ calls' = Append(calls, "retrieve")
    /\ UNCHANGED <<chunkVars, displayVars, batchVars, runVars, callVars, model_loaded, config, index, web, question, filters, relevant, search_results,
                   result_i, all_content, dynamic_content, context, prompt, response>>

\* generator.py:94: the gate is consulted only when dynamic search is enabled
GateCheck ==
    /\ pc = "gate"
    /\ relevant' = IF config.dynamic_search_enabled
                   THEN Some(is_content_relevant(config, question, retrieved_docs))
                   ELSE relevant
    /\ pc' = IF NeedsDynamicSearch(config, question, retrieved_docs)
             THEN "search" ELSE "local"
    /\ UNCHANGED <<chunkVars, displayVars, batchVars, runVars, callVars, model_loaded, faults, config, index, web, question, filters, retrieved_docs, sources,
                   search_results, result_i, all_content, dynamic_content, context,
                   prompt, response, calls>>

\* generator.py:96, 58-67: perform_dynamic_search up to the extraction loop
DynamicSearch ==
    /\ pc = "search"
    /\ \E resp \in net :
          LET r == search(resp, num_results)
          IN  /\ faults' = IF resp.ok THEN faults ELSE Append(faults, "search")
              /\ IF r.raised
                 THEN /\ pc' = "crashed"
                      /\ UNCHANGED <<search_results, dynamic_content>>
                 ELSE /\ search_results' = r.value
                      /\ IF Len(r.value) = 0
                         THEN /\ dynamic_content' = Some(NoWebInfo)
                              /\ pc' = "merge"
                         ELSE /\ dynamic_content' = dynamic_content
                              /\ pc' = "extract"
    /\ result_i' = 0
    /\ all_content' = <<>>
    /\ calls' = Append(calls, "search")
    /\ UNCHANGED <<chunkVars, displayVars, batchVars, runVars, callVars, model_loaded, config, index, web, question, filters, retrieved_docs, sources,
                   relevant, context, prompt, response>>

\* generator.py:68-71: one iteration of the loop over search_results
ExtractNext ==
    /\ pc = "extract"
    /\ result_i < Len(search_results)
    /\ LET result == search_results[result_i + 1]
       IN  IF HasUsableUrl(result)
           THEN LET url == Val(result.url)
                IN  \E page \in Fetch(web[url]) :
                       LET r == extract_content(url, page)
                       IN  /\ faults' = IF page.status = "error"
                                        THEN Append(faults, "extract") ELSE faults
                           /\ calls' = Append(calls, "extract")
                           /\ IF r.raised
                              THEN /\ pc' = "crashed"
                                   /\ UNCHANGED <<all_content, result_i>>
                              ELSE /\ all_content' =
                                        Append(all_content, SourceEntry(result_i, url, r.value))
                                   /\ result_i' = result_i + 1
                                   /\ pc' = pc
           ELSE /\ result_i' = result_i + 1
                /\ UNCHANGED <<all_content, calls, faults, pc>>
    /\ UNCHANGED <<chunkVars, displayVars, batchVars, runVars, callVars, model_loaded, config, index, web, question, filters, retrieved_docs, sources,
                   relevant, search_results, dynamic_content, context, prompt, response>>

\* generator.py:73-81: the join, the truncation and the return
CombineContent ==
    /\ pc = "extract"
    /\ result_i >= Len(search_results)
    /\ dynamic_content' = Some(Truncate(Join("\n", all_content)))
    /\ pc' = "merge"
    /\ UNCHANGED <<chunkVars, displayVars, batchVars, runVars, callVars, model_loaded, faults, config, index, web, question, filters, retrieved_docs, sources,
                   relevant, search_results, result_i, all_content, context, prompt,
                   response, calls>>

\* mutant: the tag is put in front of the document sources
WithTag_First(srcs) == <<DynamicTag>> \o srcs

\* generator.py:107
WithTag(srcs) == Append(srcs, DynamicTag)

\* generator.py:98-109
Merge ==
    /\ pc = "merge"
    /\ IF UseDynamic(dynamic_content)
       THEN /\ context' = Some(MergeContext(format_for_prompt(retrieved_docs),
                                            Val(dynamic_content)))
            /\ sources' = WithTag(sources)
       ELSE /\ context' = Some(format_for_prompt(retrieved_docs))
            /\ sources' = sources
    /\ pc' = "build"
    /\ UNCHANGED <<chunkVars, displayVars, batchVars, runVars, callVars, model_loaded, faults, config, index, web, question, filters, retrieved_docs, relevant,
                   search_results, result_i, all_content, dynamic_content, prompt,
                   response, calls>>

\* generator.py:110-111
LocalOnly ==
    /\ pc = "local"
    /\ context' = Some(format_for_prompt(retrieved_docs))
    /\ pc' = "build"
    /\ UNCHANGED <<chunkVars, displayVars, batchVars, runVars, callVars, model_loaded, faults, config, index, web, question, filters, retrieved_docs, sources,
                   relevant, search_results, result_i, all_content, dynamic_content,
                   prompt, response, calls>>

\* generator.py:113-131
BuildPrompt ==
    /\ pc = "build"
    /\ LET r == BuildPromptText(config.prompt_template, Val(context), question)
       IN  IF r.raised
           THEN /\ pc' = "crashed"
                /\ prompt' = prompt
           ELSE /\ prompt' = Some(r.value)
                /\ pc' = "invoke"
    /\ UNCHANGED <<chunkVars, displayVars, batchVars, runVars, callVars, model_loaded, faults, config, index, web, question, filters, retrieved_docs, sources,
                   relevant, search_results, result_i, all_content, dynamic_content,
                   context, response, calls>>

\* generator.py:137-142
Response(answer) ==
    Some([question |-> question,
          answer |-> answer,
          sources |-> sources,
          used_dynamic_search |-> UsedDynamicSearch(dynamic_content)])

\* generator.py:134 into model.py:50-55: generate looks at self.model and, when
\* there is none, loads the model; a failed load ends the call with the error
\* answer
InvokeModel ==
    /\ pc = "invoke"
    /\ \E llm \in {l \in LLMs : ~l.fails} :
          /\ model_loaded => llm.loads
          /\ IF llm.loads
             THEN /\ model_loaded' = TRUE
                  /\ pc' = "run"
                  /\ UNCHANGED <<response, faults>>
             ELSE LET r == generate(llm, Val(prompt))
                  IN  /\ model_loaded' = model_loaded
                      /\ faults' = Append(faults, "generate")
                      /\ IF r.raised
                         THEN /\ pc' = "crashed"
                              /\ response' = response
                         ELSE /\ response' = Response(r.value)
                              /\ pc' = "done"
    /\ calls' = Append(calls, "generate")
    /\ UNCHANGED <<chunkVars, displayVars, batchVars, runVars, callVars, config, index, web, question, filters, retrieved_docs, sources,
                   relevant, search_results, result_i, all_content, dynamic_content,
                   context, prompt>>

\* model.py:57-67 and generator.py:137-142: the loaded model runs on the prompt
\* and the call returns
RunModel ==
    /\ pc = "run"
    /\ \E llm \in {l \in LLMs : l.loads} :
          LET r == generate(llm, Val(prompt))
          IN  /\ faults' = IF llm.fails THEN Append(faults, "generate") ELSE faults
              /\ IF r.raised
                 THEN /\ pc' = "crashed"
                      /\ response' = response
                 ELSE /\ response' = Response(r.value)
                      /\ pc' = "done"
    /\ UNCHANGED <<chunkVars, displayVars, batchVars, runVars, callVars, model_loaded, config, index, web, question, filters,
                   retrieved_docs, sources, relevant, search_results, result_i,
                   all_content, dynamic_content, context, prompt, calls>>

Next ==
    \/ RetrieveLocal
    \/ GateCheck
    \/ DynamicSearch
    \/ ExtractNext
    \/ CombineContent
    \/ Merge
    \/ LocalOnly
    \/ BuildPrompt
    \/ InvokeModel
    \/ RunModel

Spec == Init /\ [][Next]_vars

-----------------------------------------------------------------------------
(* Two calls of generate_response on one Generator, app.py:182-184 *)

\* the questions of the two calls
CallQuestions == <<"How do I become a data engineer?", "What is Rust?">>

\* the locals of the running call (generator.py:83-142: every name the method
\* assigns is a local; it assigns no attribute of self)
Running ==
    [question |-> question, filters |-> filters, pc |-> pc,
     retrieved_docs |-> retrieved_docs, sources |-> sources, relevant |-> relevant,
     search_results |-> search_results, result_i |-> result_i,
     all_content |-> all_content, dynamic_content |-> dynamic_content,
     context |-> context, prompt |-> prompt, response |-> response,
     calls |-> calls, faults |-> faults]

\* the locals of a call before its first statement
Fresh(q) ==
    [question |-> q, filters |-> None, pc |-> "start",
     retrieved_docs |-> <<>>, sources |-> <<>>, relevant |-> None,
     search_results |-> <<>>, result_i |-> 0, all_content |-> <<>>,
     dynamic_content |-> None, context |-> None, prompt |-> None,
     response |-> None, calls |-> <<>>, faults |-> <<>>]

\* mutant: the sources list is one list of the Generator
Resumed_SharedSources(saved, running) == [saved EXCEPT !.sources = running.sources]

\* the locals a call finds when it runs again: its own frame, whatever the
\* call that ran meanwhile did
Resumed(saved, running) == saved

\* the thread of the other call gets the processor
Switch ==
    /\ other # None
    /\ Val(other).pc \notin {"done", "crashed"}
    /\ LET c == Resumed(Val(other), Running)
       IN  /\ question' = c.question
           /\ filters' = c.filters
           /\ pc' = c.pc
           /\ retrieved_docs' = c.retrieved_docs
           /\ sources' = c.sources
           /\ relevant' = c.relevant
           /\ search_results' = c.search_results
           /\ result_i' = c.result_i
           /\ all_content' = c.all_content
           /\ dynamic_content' = c.dynamic_content
           /\ context' = c.context
           /\ prompt' = c.prompt
           /\ response' = c.response
           /\ calls' = c.calls
           /\ faults' = c.faults
    /\ other' = Some(Running)
    /\ me' = 3 - me
    /\ UNCHANGED <<chunkVars, displayVars, batchVars, runVars, net, model_loaded, config, index, web>>

\* the search fails or finds one page
ConcurrentNet ==
    {r \in SearchResponses :
        IF r.ok THEN Len(r.blocks) = 1 /\ r.blocks[1].title = Some("A page")
        ELSE r.err = "connection refused"}

ConcurrentWebs ==
    {[u \in Urls |-> p] : p \in {[status |-> "error"],
                                 [status |-> "ok", text |-> "Rust is a language."]}}

ConcurrentInit ==
    /\ config \in {c \in Configs : c.prompt_template # ""}
    /\ index \in {i \in Indexes : Len(i) <= 1}
    /\ web \in ConcurrentWebs
    /\ question = CallQuestions[1]
    /\ filters = None
    /\ pc = "start"
    /\ FreshLocals
    /\ ChunkerIdle
    /\ net = ConcurrentNet
    /\ model_loaded \in BOOLEAN
    /\ me = 1
    /\ other = Some(Fresh(CallQuestions[2]))
    /\ DisplayIdle
    /\ BatchIdle
    /\ RunIdle

ConcurrentNext == Next \/ Switch

SpecConcurrent == ConcurrentInit /\ [][ConcurrentNext]_vars

-----------------------------------------------------------------------------
(* The two display paths: Generator.format_response_with_sources,
   generator.py:144-160, and render_sources, app.py:198-210 *)

MaxSources == 3

\* mutant: the list is shown as it is
ListOfSet_NoDedup(xs) == {xs}

\* list(set(xs)): the distinct elements of xs, in an order the set decides
ListOfSet(xs) ==
    LET S == {xs[i] : i \in 1..Len(xs)}
    IN  {o \in [1..Cardinality(S) -> S] : \A i, j \in 1..Cardinality(S) : o[i] = o[j] => i = j}

\* a source the display paths let through: "if source and source != 'Unknown'"
Displayable(source) == source # "" /\ source # "Unknown"

RECURSIVE NumberedLines(_, _)
\* generator.py:156-158: the loop over enumerate(unique_sources), from index i
NumberedLines(unique_sources, i) ==
    IF i >= Len(unique_sources) THEN ""
    ELSE (IF Displayable(unique_sources[i + 1])
          THEN ToStr(i + 1) \o ". " \o unique_sources[i + 1] \o "\n"
          ELSE "")
         \o NumberedLines(unique_sources, i + 1)

\* generator.py:144-160, with the order list(set(...)) came out in
format_response_with_sources(resp, unique_sources) ==
    LET answer == resp.answer
        noted == IF resp.used_dynamic_search
                 THEN answer \o "\n\n[Note: This response includes information from a real-time web search]"
                 ELSE answer
    IN  IF Len(resp.sources) > 0
        THEN noted \o "\n\nSources:\n" \o NumberedLines(unique_sources, 0)
        ELSE noted

RECURSIVE ListItems(_)
\* app.py:207-208
ListItems(unique_sources) ==
    IF Len(unique_sources) = 0 THEN ""
    ELSE "<li>" \o unique_sources[1] \o "</li>" \o ListItems(Tail(unique_sources))

\* app.py:198-210: the markup handed to st.markdown, "" when the function
\* returns without writing
render_sources(srcs, unique_sources) ==
    IF Len(srcs) = 0 \/ \A i \in 1..Len(srcs) : srcs[i] = "Unknown" THEN ""
    ELSE IF Len(unique_sources) > 0
    THEN "<div class='source-citation'><strong>Sources:</strong><ul>"
         \o ListItems(unique_sources) \o "</ul></div>"
    ELSE ""

\* raw sources as generate_response collects them: references, the default
\* for a missing key, the empty source of the chunker and the tag
SourceValues ==
    {"https://example.com/a", "notes.pdf", "Unknown", "", DynamicTag}

DisplayInit ==
    /\ config \in {c \in Configs : c.dynamic_search_enabled /\ c.prompt_template = ""}
    /\ index = <<>>
    /\ web = [u \in Urls |-> [status |-> "error"]]
    /\ question \in Questions
    /\ filters = None
    /\ pc = "display"
    /\ retrieved_docs = <<>>
    /\ relevant = None
    /\ search_results = <<>>
    /\ result_i = 0
    /\ all_content = <<>>
    /\ dynamic_content = None
    /\ context = None
    /\ prompt = None
    /\ calls = <<>>
    /\ faults = <<>>
    /\ sources \in SeqsUpTo(SourceValues, MaxSources)
    /\ \E used \in BOOLEAN :
          response = Some([question |-> question, answer |-> "Start with SQL.",
                           sources |-> sources, used_dynamic_search |-> used])
    /\ ChunkerIdle
    /\ OneCall
    /\ DisplayIdle
    /\ BatchIdle
    /\ RunIdle

\* generator.py:144-160
FormatResponse ==
    /\ pc = "display"
    /\ IsNone(formatted_response)
    /\ \E unique_sources \in ListOfSet(Val(response).sources) :
          formatted_response' =
              Some(format_response_with_sources(Val(response), unique_sources))
    /\ UNCHANGED <<chunkVars, batchVars, runVars, callVars, model_loaded, sources_html,
                   config, index, web, question, filters, pc, retrieved_docs, sources,
                   relevant, search_results, result_i, all_content, dynamic_content,
                   context, prompt, response, calls, faults>>

\* app.py:371 and 198-210
RenderSources ==
    /\ pc = "display"
    /\ IsNone(sources_html)
    /\ LET srcs == Val(response).sources
       IN  \E unique_sources \in ListOfSet(SelectSeq(srcs, Displayable)) :
              sources_html' = Some(render_sources(srcs, unique_sources))
    /\ UNCHANGED <<chunkVars, batchVars, runVars, callVars, model_loaded, formatted_response,
                   config, index, web, question, filters, pc, retrieved_docs, sources,
                   relevant, search_results, result_i, all_content, dynamic_content,
                   context, prompt, response, calls, faults>>

DisplayNext == FormatResponse \/ RenderSources

SpecDisplay == DisplayInit /\ [][DisplayNext]_vars

-----------------------------------------------------------------------------
(* run.py main, run.py:137-190 *)

\* what a call of generate_response and its collaborators hold
generatorVars ==
    <<config, index, web, question, filters, pc, retrieved_docs, sources, relevant,
      search_results, result_i, all_content, dynamic_content, context, prompt,
      response, calls, faults, model_loaded>>

\* run.py:30-54: the raw data directory after the collectors ran
RawData == {<<>>, <<"SQL first.">>, <<"SQL first.", "Then Python.">>}

\* run.py:56-75: the chunks of the raw data, cleaned
process_data(d) == [j \in 1..Len(d.raw) |-> [text |-> d.raw[j], cleaned |-> TRUE]]

\* run.py:77-92 with embeddings/model.py:39-61: a copy of every chunk with its
\* embedding
create_embeddings(cs) ==
    [j \in 1..Len(cs) |->
        [text |-> cs[j].text, cleaned |-> cs[j].cleaned,
         embedding |-> "vector of " \o cs[j].text]]

\* embeddings/model.py:84-107
load_embeddings(d) == IF IsNone(d.embeddings) THEN <<>> ELSE Val(d.embeddings)

\* mutant: the embedding step always runs the processing
NeedsProcessing_Always(cs) == TRUE

\* run.py:164 "if chunks is None"
NeedsProcessing(cs) == IsNone(cs)

\* mutant: the vector database is built with whatever there is
Buildable_Any(embedded) == TRUE

\* run.py:176 "if embedded_chunks"
Buildable(embedded) == Len(embedded) > 0

\* an entry of the log: the stage function called, its argument and its result
Called(stage, arg, result) == [stage |-> stage, arg |-> arg, result |-> result]

Flags == [collect : BOOLEAN, process : BOOLEAN, embed : BOOLEAN, build_db : BOOLEAN,
          check_model : BOOLEAN, app : BOOLEAN, all : BOOLEAN]

\* the embeddings file of an earlier run: none, an empty one, one with a chunk
SavedEmbeddings ==
    {None, Some(<<>>),
     Some(create_embeddings(<<[text |-> "Old notes.", cleaned |-> TRUE]>>))}

RunInit ==
    /\ config \in {c \in Configs : c.dynamic_search_enabled /\ c.prompt_template = ""}
    /\ index = <<>>
    /\ web = [u \in Urls |-> [status |-> "error"]]
    /\ question \in Questions
    /\ filters = None
    /\ pc = "run.py"
    /\ FreshLocals
    /\ ChunkerIdle
    /\ OneCall
    /\ DisplayIdle
    /\ BatchIdle
    /\ args \in Flags
    /\ run_pc = "collect"
    /\ main_chunks = None
    /\ embedded_chunks = None
    /\ stage_log = <<>>
    /\ disk \in [raw : RawData, embeddings : SavedEmbeddings]

\* run.py:157-158
Collect ==
    /\ run_pc = "collect"
    /\ IF args.all \/ args.collect
       THEN \E raw \in RawData :
               /\ disk' = [disk EXCEPT !.raw = raw]
               /\ stage_log' = Append(stage_log, Called("collect_data", None, None))
       ELSE UNCHANGED <<disk, stage_log>>
    /\ run_pc' = "process"
    /\ UNCHANGED <<chunkVars, displayVars, batchVars, callVars, generatorVars, args,
                   main_chunks, embedded_chunks>>

\* run.py:160-161
Process ==
    /\ run_pc = "process"
    /\ IF args.all \/ args.process
       THEN /\ main_chunks' = Some(process_data(disk))
            /\ stage_log' = Append(stage_log, Called("process_data", None, process_data(disk)))
       ELSE UNCHANGED <<main_chunks, stage_log>>
    /\ run_pc' = "embed"
    /\ UNCHANGED <<chunkVars, displayVars, batchVars, callVars, generatorVars, args,
                   embedded_chunks, disk>>

\* run.py:163-167
Embed ==
    /\ run_pc = "embed"
    /\ IF args.all \/ args.embed
       THEN LET on_demand == NeedsProcessing(main_chunks)
                chunks_now == IF on_demand THEN process_data(disk) ELSE Val(main_chunks)
                log_now == IF on_demand
                           THEN Append(stage_log,
                                       Called("process_data", None, process_data(disk)))
                           ELSE stage_log
            IN  /\ main_chunks' = Some(chunks_now)
                /\ embedded_chunks' = Some(create_embeddings(chunks_now))
                /\ disk' = [disk EXCEPT !.embeddings = Some(create_embeddings(chunks_now))]
                /\ stage_log' = Append(log_now, Called("create_embeddings", chunks_now,
                                                       create_embeddings(chunks_now)))
       ELSE UNCHANGED <<main_chunks, embedded_chunks, disk, stage_log>>
    /\ run_pc' = "build_db"
    /\ UNCHANGED <<chunkVars, displayVars, batchVars, callVars, generatorVars, args>>

\* run.py:169-179
BuildDb ==
    /\ run_pc = "build_db"
    /\ IF args.all \/ args.build_db
       THEN LET embedded == IF IsNone(embedded_chunks) THEN load_embeddings(disk)
                            ELSE Val(embedded_chunks)
            IN  /\ embedded_chunks' = Some(embedded)
                /\ stage_log' =
                      Append(stage_log,
                             IF Buildable(embedded)
                             THEN Called("build_vector_db", embedded, None)
                             ELSE Called("logger.error",
                                         "No embedded chunks available for building vector DB",
                                         None))
       ELSE UNCHANGED <<embedded_chunks, stage_log>>
    /\ run_pc' = "check_model"
    /\ UNCHANGED <<chunkVars, displayVars, batchVars, callVars, generatorVars, args,
                   main_chunks, disk>>

\* run.py:181-182
CheckModel ==
    /\ run_pc = "check_model"
    /\ stage_log' = IF args.all \/ args.check_model
                    THEN Append(stage_log, Called("download_llm_model", None, None))
                    ELSE stage_log
    /\ run_pc' = "app"
    /\ UNCHANGED <<chunkVars, displayVars, batchVars, callVars, generatorVars, args,
                   main_chunks, embedded_chunks, disk>>

\* run.py:184-189
RunApp ==
    /\ run_pc = "app"
    /\ stage_log' = IF args.all \/ args.app
                    THEN Append(stage_log, Called("run_app", None, None))
                    ELSE IF \A f \in DOMAIN args : ~args[f]
                    THEN Append(stage_log, Called("print_help", None, None))
                    ELSE stage_log
    /\ run_pc' = "end"
    /\ UNCHANGED <<chunkVars, displayVars, batchVars, callVars, generatorVars, args,
                   main_chunks, embedded_chunks, disk>>

RunNext == Collect \/ Process \/ Embed \/ BuildDb \/ CheckModel \/ RunApp

SpecRun == RunInit /\ [][RunNext]_vars

-----------------------------------------------------------------------------
(* Retriever.retrieve called with filters, retriever.py:31-53 *)

FilterArgs ==
    { None,
      Some(<<>>),
      Some([source_type |-> "web"]),
      Some([source_type |-> "pdf"]),
      Some([source |-> "https://example.com/a"]),
      Some([source |-> "https://example.com/a", source_type |-> "web"]),
      Some([source |-> "https://example.com/a", source_type |-> "pdf"]) }

\* the network is not consulted outside generate_response
WebDown == [u \in Urls |-> [status |-> "error"]]

RetrieveInit ==
    /\ config \in [dynamic_search_enabled : {TRUE}, top_k : {1, DefaultTopK},
                   prompt_template : {""}, min_relevance_score : {"0.6"}]
    /\ index \in Indexes
    /\ web = WebDown
    /\ question \in Questions
    /\ filters \in FilterArgs
    /\ pc = "retrieve"
    /\ FreshLocals
    /\ ChunkerIdle
    /\ OneCall
    /\ DisplayIdle
    /\ BatchIdle
    /\ RunIdle

RetrieveCall ==
    /\ pc = "retrieve"
    /\ retrieved_docs' = retrieve(index, question, filters, config.top_k)
    /\ calls' = Append(calls, "retrieve")
    /\ pc' = "retrieved"
    /\ UNCHANGED <<chunkVars, displayVars, batchVars, runVars, callVars, model_loaded, faults, config, index, web, question, filters, sources, relevant,
                   search_results, result_i, all_content, dynamic_content, context,
                   prompt, response>>

SpecRetrieve == RetrieveInit /\ [][RetrieveCall]_vars

-----------------------------------------------------------------------------
(* Generator.is_content_relevant on its own inputs: the call has retrieved   *)
(* retrieved_docs and stands before line 94                                  *)

GateDocKinds ==
    { [text |-> Rep("t", n), metadata |-> [source_type |-> "web"], distance |-> d] :
        n \in {0, 1, HalfLen - 1, HalfLen, HalfLen + 1, RelevanceThreshold},
        d \in {12, 90} }

GateInit ==
    /\ config \in [dynamic_search_enabled : {TRUE}, top_k : {DefaultTopK},
                   prompt_template : {""}, min_relevance_score : {"0.6", "0.9"}]
    /\ index \in {MkIndex(kinds) : kinds \in SeqsUpTo(GateDocKinds, MaxDocs)}
    /\ web = WebDown
    /\ question \in {"How do I become a data engineer?", "What is Rust?"}
    /\ filters = None
    /\ pc = "gate"
    /\ retrieved_docs = retrieve(index, question, filters, config.top_k)
    /\ sources = CollectSources(retrieved_docs)
    /\ relevant = None
    /\ search_results = <<>>
    /\ result_i = 0
    /\ all_content = <<>>
    /\ dynamic_content = None
    /\ context = None
    /\ prompt = None
    /\ response = None
    /\ calls = <<"retrieve">>
    /\ faults = <<>>
    /\ ChunkerIdle
    /\ OneCall
    /\ DisplayIdle
    /\ BatchIdle
    /\ RunIdle

SpecGate == GateInit /\ [][GateCheck]_vars

-----------------------------------------------------------------------------
(* Shorthands of the properties *)

\* the collaborator was never called
NoCall(name) == \A i \in 1..Len(calls) : calls[i] # name
\* context has been assigned
PastMerge == pc \in {"build", "invoke", "run", "done"}
\* line 94 took the dynamic-search branch
BranchTaken == config.dynamic_search_enabled /\ relevant = Some(FALSE)
LocalContext == format_for_prompt(retrieved_docs)
HasTag == \E i \in 1..Len(sources) : sources[i] = "Dynamic Web Search"
NoUsableUrl == \A i \in 1..Len(search_results) : ~HasUsableUrl(search_results[i])
Combined == Join("\n", all_content)

-----------------------------------------------------------------------------
(* Properties *)

\* C1: the returned used_dynamic_search flag is true iff the dynamic-search
\* branch was taken and it produced non-empty content (some excerpt was
\* extracted); a branch that was only attempted yields false.
C1_UsedFlagIffContentProduced ==
    pc = "done" =>
        (Val(response).used_dynamic_search
            <=> (BranchTaken /\ Len(search_results) > 0 /\ Len(all_content) > 0))

\* C2: dynamic search enabled, local context insufficient, the search returned
\* results with URLs and every extract_content attempt failed: the context is
\* the local-only context, the tag is not in sources and the flag is false.
AllExtractsFail ==
    /\ \E i \in 1..Len(search_results) : HasUsableUrl(search_results[i])
    /\ \A i \in 1..Len(search_results) :
          HasUsableUrl(search_results[i])
              => web[Val(search_results[i].url)].status = "error"

C2_FailedExtractionFallsBack ==
    (pc = "done" /\ BranchTaken /\ AllExtractsFail) =>
        /\ context = Some(LocalContext)
        /\ ~HasTag
        /\ ~Val(response).used_dynamic_search

\* C3: with at least two retrieved documents of combined text length >= 500
\* the call never invokes search or extract_content, the context is exactly
\* format_for_prompt(retrieved docs) and used_dynamic_search is false.
C3_SufficientSkipsSearch ==
    (pc # "start" /\ Len(retrieved_docs) >= 2 /\ SumLen(retrieved_docs) >= 500) =>
        /\ NoCall("search")
        /\ NoCall("extract")
        /\ PastMerge => context = Some(LocalContext)
        /\ pc = "done" => ~Val(response).used_dynamic_search

C3_Witness ==
    /\ pc = "done"
    /\ config.dynamic_search_enabled
    /\ Len(retrieved_docs) >= 2
    /\ SumLen(retrieved_docs) >= 500

\* C4: zero local documents and a search with one result whose page is
\* extractable: sources includes the tag, used_dynamic_search is true and the
\* context is the dynamic content alone, not appended to the sentinel.
OneExtractableResult ==
    /\ Len(search_results) = 1
    /\ HasUsableUrl(search_results[1])
    /\ web[Val(search_results[1].url)].status = "ok"

C4_DynamicReplacesSentinel ==
    (pc = "done" /\ config.dynamic_search_enabled /\ Len(retrieved_docs) = 0
        /\ OneExtractableResult) =>
        /\ HasTag
        /\ Val(response).sources = <<"Dynamic Web Search">>
        /\ Val(response).used_dynamic_search
        /\ context = dynamic_content
        /\ StartsWith(Val(context), "[Source 1: " \o Val(search_results[1].url) \o "]\nContent from ")
        /\ ~Contains(Prefix(Val(context), 2 * Len(NoInfo)), "No relevant information found.")

C4_Witness ==
    /\ pc = "done"
    /\ config.dynamic_search_enabled
    /\ Len(retrieved_docs) = 0
    /\ OneExtractableResult

\* C5: with dynamic_search_enabled false, whatever was retrieved, search and
\* extract_content are never called, sources has no tag, the context is the
\* local one and used_dynamic_search is false.
C5_DisabledNeverSearches ==
    ~config.dynamic_search_enabled =>
        /\ NoCall("search")
        /\ NoCall("extract")
        /\ ~HasTag
        /\ PastMerge => context = Some(LocalContext)
        /\ pc = "done" => ~Val(response).used_dynamic_search

C5_Witness ==
    /\ pc = "done"
    /\ ~config.dynamic_search_enabled
    /\ Len(retrieved_docs) = 0

\* C6: is_content_relevant returns true iff there are at least two documents
\* and their text lengths sum to at least 500; the question, the distances
\* and min_relevance_score do not enter.
C6_GateIsCountAndLength ==
    pc \in {"local", "search"} =>
        relevant = Some(Len(retrieved_docs) >= 2 /\ SumLen(retrieved_docs) >= 500)

\* a single document that alone reaches the threshold is judged insufficient
C6_Witness ==
    /\ pc = "search"
    /\ Len(retrieved_docs) = 1
    /\ SumLen(retrieved_docs) >= 500
    /\ relevant = Some(FALSE)

\* C7: when dynamic content was produced, it replaces the context if no local
\* document was retrieved (the local context is the sentinel) and is otherwise
\* appended to the local context under the heading; the tag is appended to
\* sources in both cases.
ContentProduced ==
    /\ dynamic_content # None
    /\ Val(dynamic_content) # ""
    /\ Val(dynamic_content) # "No relevant information found from web search."

C7_MergeRule ==
    (PastMerge /\ ContentProduced) =>
        /\ (LocalContext = "No relevant information found.") <=> (Len(retrieved_docs) = 0)
        /\ Len(retrieved_docs) = 0 => context = dynamic_content
        /\ Len(retrieved_docs) > 0 =>
              /\ context = Some(LocalContext \o "\n\nADDITIONAL WEB SEARCH RESULTS:\n"
                                \o Val(dynamic_content))
              /\ StartsWith(Val(context), LocalContext)
        /\ sources = CollectSources(retrieved_docs) \o <<"Dynamic Web Search">>

C7_Witness ==
    /\ pc = "done"
    /\ ContentProduced
    /\ Len(retrieved_docs) > 0

\* C8: the branch was taken and no usable content was extracted (no search
\* result, or no result with a non-empty url): the context is exactly the
\* local-only context and the tag is not appended to sources.
C8_NoContentFallsBack ==
    (PastMerge /\ BranchTaken /\ (Len(search_results) = 0 \/ NoUsableUrl)) =>
        /\ context = Some(LocalContext)
        /\ ~HasTag
        /\ sources = CollectSources(retrieved_docs)

C8_Witness ==
    /\ pc = "done"
    /\ BranchTaken
    /\ Len(search_results) > 0
    /\ NoUsableUrl

\* C9: combined excerpt text longer than 4000 characters is returned as its
\* first 4000 characters followed by one truncation marker; combined text of
\* at most 4000 characters is returned unchanged.
C9_Truncation ==
    (pc \in {"merge", "build", "invoke", "run", "done"} /\ Len(search_results) > 0) =>
        LET dyn == Val(dynamic_content)
        IN  IF Len(Combined) > 4000
            THEN /\ Len(dyn) = 4000 + Len("... [content truncated]")
                 /\ SubSeq(dyn, 1, 4000) = SubSeq(Combined, 1, 4000)
                 /\ SubSeq(dyn, 4001, Len(dyn)) = "... [content truncated]"
            ELSE dyn = Combined

\* 5000 characters become 4000 plus the marker
C9_Witness ==
    /\ pc = "merge"
    /\ Len(search_results) > 0
    /\ Len(Combined) = 5000
    /\ Len(Val(dynamic_content)) = 4000 + Len(TruncationMarker)

\* C10: retrieve with filters keeps a document only if every filter key is in
\* its metadata with exactly the filter's value; a document lacking a filter
\* key is dropped.
C10_FilterKeysMustMatch ==
    (pc = "retrieved" /\ ~IsNone(filters) /\ DOMAIN Val(filters) # {}) =>
        \A i \in 1..Len(retrieved_docs) :
            \A key \in DOMAIN Val(filters) :
                /\ key \in DOMAIN retrieved_docs[i].metadata
                /\ retrieved_docs[i].metadata[key] = Val(filters)[key]

\* C11: retrieve returns at most top_k documents in the order of the vector
\* index; with filters the result is an order-preserving subsequence of the
\* index result; text, metadata, id and distance are passed through unchanged.
\* the rank in the collection of the i-th returned document (ids are unique)
RankOf(i) == CHOOSE j \in 1..Len(index) : index[j].id = retrieved_docs[i].id

C11_RetrieveBoundedOrdered ==
    pc = "retrieved" =>
        /\ Len(retrieved_docs) <= config.top_k
        /\ \A i \in 1..Len(retrieved_docs) :
              /\ \E j \in 1..Len(index) : index[j].id = retrieved_docs[i].id
              /\ RankOf(i) <= config.top_k
              /\ retrieved_docs[i].text = index[RankOf(i)].text
              /\ retrieved_docs[i].metadata = index[RankOf(i)].metadata
              /\ retrieved_docs[i].distance = index[RankOf(i)].distance
              /\ DOMAIN retrieved_docs[i] = {"text", "metadata", "id", "distance"}
        /\ \A i, k \in 1..Len(retrieved_docs) : i < k => RankOf(i) < RankOf(k)
        /\ (IsNone(filters) \/ DOMAIN Val(filters) = {}) =>
              Len(retrieved_docs) = Min(config.top_k, Len(index))

\* a filtered retrieval from a collection larger than top_k
C11_Witness ==
    /\ pc = "retrieved"
    /\ ~IsNone(filters)
    /\ DOMAIN Val(filters) # {}
    /\ Len(index) > config.top_k
    /\ Len(retrieved_docs) = config.top_k

-----------------------------------------------------------------------------
(* Retriever.format_for_prompt on its own inputs, retriever.py:55-72 *)

FormatDocKinds ==
    { [text |-> t, metadata |-> md, distance |-> 12] :
        t \in {"Learn SQL first.", "", "see [Document 7] above", "[Document 1]"},
        md \in {[source |-> "https://example.com/a"], [source |-> ""], <<>>} }

FormatInit ==
    /\ config \in [dynamic_search_enabled : {TRUE}, top_k : {DefaultTopK},
                   prompt_template : {""}, min_relevance_score : {"0.6"}]
    /\ index \in {MkIndex(kinds) : kinds \in SeqsUpTo(FormatDocKinds, MaxDocs)}
    /\ web = WebDown
    /\ question \in Questions
    /\ filters = None
    /\ pc = "format"
    /\ retrieved_docs = retrieve(index, question, filters, config.top_k)
    /\ sources = <<>>
    /\ relevant = None
    /\ search_results = <<>>
    /\ result_i = 0
    /\ all_content = <<>>
    /\ dynamic_content = None
    /\ context = None
    /\ prompt = None
    /\ response = None
    /\ calls = <<"retrieve">>
    /\ faults = <<>>
    /\ ChunkerIdle
    /\ OneCall
    /\ DisplayIdle
    /\ BatchIdle
    /\ RunIdle

\* formatted = retriever.format_for_prompt(results), retriever.py:79
FormatCall ==
    /\ pc = "format"
    /\ context' = Some(format_for_prompt(retrieved_docs))
    /\ pc' = "formatted"
    /\ UNCHANGED <<chunkVars, displayVars, batchVars, runVars, callVars, model_loaded, faults, config, index, web, question, filters,
                   retrieved_docs, sources, relevant, search_results, result_i,
                   all_content, dynamic_content, prompt, response, calls>>

SpecFormat == FormatInit /\ [][FormatCall]_vars

\* the number of leading decimal digits of s
RECURSIVE DigitsLen(_)
DigitsLen(s) ==
    IF Len(s) > 0 /\ Contains("0123456789", SubSeq(s, 1, 1))
    THEN 1 + DigitsLen(Suffix(s, 1)) ELSE 0

\* the numbers of the '[Document n]' markers that occur in s, in order
RECURSIVE Markers(_)
Markers(s) ==
    LET k == FindFrom(s, "[Document ", 0)
        rest == Suffix(s, k + Len("[Document "))
        d == DigitsLen(rest)
    IN  IF k < 0 THEN <<>>
        ELSE IF d > 0 /\ SubSeq(rest, d + 1, d + 1) = "]"
        THEN <<Prefix(rest, d)>> \o Markers(Suffix(rest, d + 1))
        ELSE Markers(rest)

\* the markers a document's own text and shown source bring along
OwnMarkers(doc) ==
    Markers(doc.text)
    \o (IF "source" \in DOMAIN doc.metadata THEN Markers(doc.metadata["source"]) ELSE <<>>)

RECURSIVE BlockMarkers(_, _)
\* per document, in input order: its number, then the markers of its own text
BlockMarkers(docs, i) ==
    IF i > Len(docs) THEN <<>>
    ELSE <<ToStr(i)>> \o OwnMarkers(docs[i]) \o BlockMarkers(docs, i + 1)

\* C12 as claimed: format_for_prompt([]) is the sentinel; for non-empty docs
\* the output contains exactly len(docs) '[Document i]' markers, numbered
\* 1..len(docs) in input order, and is never the sentinel.
C12_ExactlyLenDocsMarkers ==
    pc = "formatted" =>
        IF Len(retrieved_docs) = 0
        THEN context = Some("No relevant information found.")
        ELSE /\ Markers(Val(context)) = [i \in 1..Len(retrieved_docs) |-> ToStr(i)]
             /\ Val(context) # "No relevant information found."

\* C12 amended: format_for_prompt([]) is the sentinel; for non-empty docs the
\* output is never the sentinel and holds one marker per document, numbered
\* 1..len(docs) in input order, each followed by that document's text copied
\* verbatim, markers inside that text included; the markers are exactly
\* len(docs) when no document text or source contains one.
C12_OneMarkerPerBlock ==
    pc = "formatted" =>
        IF Len(retrieved_docs) = 0
        THEN context = Some("No relevant information found.")
        ELSE /\ Markers(Val(context)) = BlockMarkers(retrieved_docs, 1)
             /\ (\A i \in 1..Len(retrieved_docs) : OwnMarkers(retrieved_docs[i]) = <<>>)
                   => Markers(Val(context)) = [i \in 1..Len(retrieved_docs) |-> ToStr(i)]
             /\ Val(context) # "No relevant information found."

\* two documents, none of which quotes a marker
C12_Witness ==
    /\ pc = "formatted"
    /\ Len(retrieved_docs) = 2
    /\ \A i \in 1..Len(retrieved_docs) : OwnMarkers(retrieved_docs[i]) = <<>>
    /\ Markers(Val(context)) = <<"1", "2">>

-----------------------------------------------------------------------------
(* TextChunker._chunk_text, chunker.py:26-64 *)

\* a character str.strip(), str.split() and \s treat as whitespace
IsSpace(c) == c \in {" ", "\n", "\t"}

RECURSIVE SkipSpaces(_, _)
\* the first position from i on (1-based) that holds no whitespace
SkipSpaces(s, i) ==
    IF i <= Len(s) /\ IsSpace(SubSeq(s, i, i)) THEN SkipSpaces(s, i + 1) ELSE i

RECURSIVE SplitFrom(_, _, _)
\* the pieces of s from position a on, scanning at position i
SplitFrom(s, a, i) ==
    IF i > Len(s) THEN <<SubSeq(s, a, Len(s))>>
    ELSE IF i > 1 /\ IsSpace(SubSeq(s, i, i)) /\ SubSeq(s, i - 1, i - 1) \in {".", "!", "?"}
    THEN <<SubSeq(s, a, i - 1)>> \o SplitFrom(s, SkipSpaces(s, i), SkipSpaces(s, i))
    ELSE SplitFrom(s, a, i + 1)

\* chunker.py:34 re.split(r'(?<=[.!?])\s+', text)
SplitSentences(s) == SplitFrom(s, 1, 1)

RECURSIVE LStrip(_)
LStrip(s) == IF Len(s) > 0 /\ IsSpace(SubSeq(s, 1, 1)) THEN LStrip(Suffix(s, 1)) ELSE s

RECURSIVE RStrip(_)
RStrip(s) ==
    IF Len(s) > 0 /\ IsSpace(SubSeq(s, Len(s), Len(s)))
    THEN RStrip(Prefix(s, Len(s) - 1)) ELSE s

\* str.strip()
Strip(s) == RStrip(LStrip(s))

RECURSIVE WordEnd(_, _)
\* the first position from i on that holds whitespace, or Len(s) + 1
WordEnd(s, i) ==
    IF i <= Len(s) /\ ~IsSpace(SubSeq(s, i, i)) THEN WordEnd(s, i + 1) ELSE i

RECURSIVE WordsFrom(_, _)
WordsFrom(s, i) ==
    LET a == SkipSpaces(s, i)
    IN  IF a > Len(s) THEN <<>>
        ELSE <<SubSeq(s, a, WordEnd(s, a) - 1)>> \o WordsFrom(s, WordEnd(s, a))

\* str.split()
Words(s) == WordsFrom(s, 1)

\* words[-n:] for n >= 0: -0 is 0, so the slice with n = 0 is the whole list
LastSlice(words, n) ==
    IF n = 0 THEN words
    ELSE SubSeq(words, (IF Len(words) > n THEN Len(words) - n ELSE 0) + 1, Len(words))

\* chunker.py:47-48
OverlapText(self, chunk) ==
    LET words == Words(chunk)
    IN  IF Len(words) > self.chunk_overlap
        THEN Join(" ", LastSlice(words, self.chunk_overlap))
        ELSE ""

\* chunker.py:41-44, 59-62
MkChunk(chunk, metadata) == [text |-> Strip(chunk), metadata |-> metadata]

\* chunker.py:39
ClosesChunk(self, chunk, sentence) ==
    /\ Len(chunk) + Len(sentence) > self.chunk_size
    /\ Len(chunk) >= self.min_chunk_length

RECURSIVE ChunkLoop(_, _, _, _, _)
\* chunker.py:37-55 from sentence number i on; st holds chunks, current_chunk
\* and splits, the numbers of the sentences at which a chunk was closed
ChunkLoop(self, sentences, metadata, i, st) ==
    IF i > Len(sentences) THEN st
    ELSE LET sentence == sentences[i]
         IN  IF ClosesChunk(self, st.current_chunk, sentence)
             THEN ChunkLoop(self, sentences, metadata, i + 1,
                    [chunks |-> Append(st.chunks, MkChunk(st.current_chunk, metadata)),
                     current_chunk |-> OverlapText(self, st.current_chunk) \o " " \o sentence,
                     splits |-> Append(st.splits, i)])
             ELSE ChunkLoop(self, sentences, metadata, i + 1,
                    [chunks |-> st.chunks,
                     current_chunk |-> IF st.current_chunk # ""
                                       THEN st.current_chunk \o " " \o sentence
                                       ELSE sentence,
                     splits |-> st.splits])

\* chunker.py:31-55: the state when the loop has ended
LoopEnd(self, txt, metadata) ==
    ChunkLoop(self, SplitSentences(txt), metadata, 1,
              [chunks |-> <<>>, current_chunk |-> "", splits |-> <<>>])

\* the flush without the length test of chunker.py:58
FlushLast_AnyLength(self, st, metadata) ==
    IF st.current_chunk # ""
    THEN Append(st.chunks, MkChunk(st.current_chunk, metadata))
    ELSE st.chunks

\* mutant: the buffer left at the end is never emitted
FlushLast_DropsBuffer(self, st, metadata) == st.chunks

\* chunker.py:57-62
FlushLast(self, st, metadata) ==
    IF st.current_chunk # "" /\ Len(st.current_chunk) >= self.min_chunk_length
    THEN Append(st.chunks, MkChunk(st.current_chunk, metadata))
    ELSE st.chunks

\* chunking that cuts every chunk down to chunk_size characters
_chunk_text_HardCut(self, txt, metadata) ==
    LET cs == FlushLast(self, LoopEnd(self, txt, metadata), metadata)
    IN  [j \in 1..Len(cs) |-> [cs[j] EXCEPT !.text = Prefix(@, self.chunk_size)]]

\* chunker.py:26-64
_chunk_text(self, txt, metadata) == FlushLast(self, LoopEnd(self, txt, metadata), metadata)

\* the pieces texts are made of
Tokens == {"ab", "c", " ", ". "}

RECURSIVE ConcatAll(_)
ConcatAll(ts) == IF Len(ts) = 0 THEN "" ELSE ts[1] \o ConcatAll(Tail(ts))

Texts == {ConcatAll(ts) : ts \in SeqsUpTo(Tokens, MaxTokens)}

ChunkerConfigs ==
    [chunk_size : {3, 6}, chunk_overlap : {0, 1}, min_chunk_length : {0, 3, 7}]

\* chunker.py:95-100
ChunkMetadatas ==
    { [source |-> "", filename |-> "notes.txt", source_type |-> "web",
       doc_id |-> "web_notes.txt"] }

ChunkInit ==
    /\ config \in [dynamic_search_enabled : {TRUE}, top_k : {DefaultTopK},
                   prompt_template : {""}, min_relevance_score : {"0.6"}]
    /\ index = <<>>
    /\ web = WebDown
    /\ question \in Questions
    /\ filters = None
    /\ pc = "chunk"
    /\ FreshLocals
    /\ chunker \in ChunkerConfigs
    /\ text \in Texts
    /\ chunks = <<>>
    /\ current_chunk = ""
    /\ OneCall
    /\ DisplayIdle
    /\ BatchIdle
    /\ RunIdle

\* chunks = self._chunk_text(content, metadata), chunker.py:103
ChunkText ==
    /\ pc = "chunk"
    /\ \E metadata \in ChunkMetadatas :
          /\ chunks' = _chunk_text(chunker, text, metadata)
          /\ current_chunk' = LoopEnd(chunker, text, metadata).current_chunk
    /\ pc' = "chunked"
    /\ UNCHANGED <<displayVars, batchVars, runVars, callVars, model_loaded, chunker, text, faults, config, index, web, question, filters,
                   retrieved_docs, sources, relevant, search_results, result_i,
                   all_content, dynamic_content, context, prompt, response, calls>>

SpecChunk == ChunkInit /\ [][ChunkText]_vars

-----------------------------------------------------------------------------
(* TextChunker.process_files, chunker.py:66-119 *)

MaxFiles == 2

\* chunker.py:71
Subfolders == <<"web", "pdf_extracted", "youtube">>

\* s.endswith(p)
EndsWith(s, p) == Len(s) >= Len(p) /\ SubSeq(s, Len(s) - Len(p) + 1, Len(s)) = p

RECURSIVE ReplaceAll(_, _, _)
\* s.replace(p, r)
ReplaceAll(s, p, r) ==
    LET k == FindFrom(s, p, 0)
    IN  IF k < 0 THEN s
        ELSE Prefix(s, k) \o r \o ReplaceAll(Suffix(s, k + Len(p)), p, r)

\* chunker.py:87-92: the source named in the first line, and the rest
SplitSource(content) ==
    LET lines == Split(content, "\n")
    IN  IF StartsWith(lines[1], "Source:")
        THEN [source |-> Strip(ReplaceAll(lines[1], "Source:", "")),
              content |-> Join("\n", Tail(lines))]
        ELSE [source |-> "", content |-> content]

\* chunker.py:95-100
FileMetadata(subfolder, filename, source) ==
    [source |-> source, filename |-> filename, source_type |-> subfolder,
     doc_id |-> subfolder \o "_" \o filename]

\* what the chunking of a file's text can end with
ChunkingOutcomes == {"ok", "error"}

\* chunker.py:83-104, the body of the try: None as content is a file that
\* cannot be opened, read or decoded
process_file_Try(self, subfolder, file, chunking) ==
    IF IsNone(file.content) THEN Raised("cannot read " \o file.name)
    ELSE LET parsed == SplitSource(Val(file.content))
             metadata == FileMetadata(subfolder, file.name, parsed.source)
         IN  IF chunking = "error" THEN Raised("chunking failed")
             ELSE Returned(_chunk_text(self, parsed.content, metadata))

\* mutant: the loop body has no except
process_file_Propagates(self, subfolder, file, chunking) ==
    process_file_Try(self, subfolder, file, chunking)

\* chunker.py:82-109: the try with its except, which logs; the value is what
\* all_chunks is extended with
process_file(self, subfolder, file, chunking) ==
    LET r == process_file_Try(self, subfolder, file, chunking)
    IN  IF r.raised THEN Returned(<<>>) ELSE r

\* the files a folder can hold
FileKinds ==
    { [name |-> "a.txt", content |-> Some("Source: http://a\n\nab c. ab. c ab. ")],
      [name |-> "b.txt", content |-> Some("c ab. ab")],
      [name |-> "bad.txt", content |-> None],
      [name |-> "notes.md", content |-> Some("ab. ab. ")] }

\* os.listdir: names are distinct, in the order the system gives them
Listings ==
    {fs \in SeqsUpTo(FileKinds, MaxFiles) :
        \A i, j \in 1..Len(fs) : fs[i].name = fs[j].name => i = j}

\* the folder is missing or holds a listing
Folders == {None} \cup {Some(fs) : fs \in Listings}

BatchInit ==
    /\ config \in {c \in Configs : c.dynamic_search_enabled /\ c.prompt_template = ""}
    /\ index = <<>>
    /\ web = [u \in Urls |-> [status |-> "error"]]
    /\ question \in Questions
    /\ filters = None
    /\ pc = "batch"
    /\ FreshLocals
    /\ chunker = [chunk_size |-> 6, chunk_overlap |-> 1, min_chunk_length |-> 3]
    /\ text = ""
    /\ chunks = <<>>
    /\ current_chunk = ""
    /\ OneCall
    /\ DisplayIdle
    /\ RunIdle
    /\ \E w \in Folders, p \in Folders :
       \E y \in {None, Some(<<CHOOSE f \in FileKinds : f.name = "a.txt">>)} :
          input_dir = [sub \in {"web", "pdf_extracted", "youtube"} |->
                          IF sub = "web" THEN w ELSE IF sub = "pdf_extracted" THEN p ELSE y]
    /\ folder_i = 0
    /\ file_i = 0
    /\ all_chunks = <<>>
    /\ batch_pc = "folders"

\* chunker.py:71-76: the outer loop takes the next subfolder
EnterFolder ==
    /\ batch_pc = "folders"
    /\ folder_i < Len(Subfolders)
    /\ IF IsNone(input_dir[Subfolders[folder_i + 1]])
       THEN /\ folder_i' = folder_i + 1
            /\ UNCHANGED <<file_i, batch_pc>>
       ELSE /\ file_i' = 0
            /\ batch_pc' = "files"
            /\ folder_i' = folder_i
    /\ UNCHANGED <<chunkVars, displayVars, runVars, callVars, model_loaded, input_dir,
                   all_chunks, faults, config, index, web, question, filters, pc,
                   retrieved_docs, sources, relevant, search_results, result_i,
                   all_content, dynamic_content, context, prompt, response, calls>>

\* chunker.py:78-109: one iteration of the loop over os.listdir(folder_path)
ProcessFile ==
    /\ batch_pc = "files"
    /\ LET subfolder == Subfolders[folder_i + 1]
           files == Val(input_dir[subfolder])
       IN  /\ file_i < Len(files)
           /\ LET file == files[file_i + 1]
              IN  IF ~EndsWith(file.name, ".txt")
                  THEN UNCHANGED <<all_chunks, faults, batch_pc>>
                  ELSE \E chunking \in ChunkingOutcomes :
                          LET r == process_file(chunker, subfolder, file, chunking)
                          IN  /\ faults' = IF IsNone(file.content) \/ chunking = "error"
                                           THEN Append(faults, subfolder \o "_" \o file.name)
                                           ELSE faults
                              /\ IF r.raised
                                 THEN /\ batch_pc' = "crashed"
                                      /\ all_chunks' = all_chunks
                                 ELSE /\ all_chunks' = all_chunks \o r.value
                                      /\ batch_pc' = batch_pc
    /\ file_i' = file_i + 1
    /\ UNCHANGED <<chunkVars, displayVars, runVars, callVars, model_loaded, input_dir,
                   folder_i, config, index, web, question, filters, pc,
                   retrieved_docs, sources, relevant, search_results, result_i,
                   all_content, dynamic_content, context, prompt, response, calls>>

\* chunker.py:78: the listing is exhausted
LeaveFolder ==
    /\ batch_pc = "files"
    /\ file_i >= Len(Val(input_dir[Subfolders[folder_i + 1]]))
    /\ folder_i' = folder_i + 1
    /\ batch_pc' = "folders"
    /\ UNCHANGED <<chunkVars, displayVars, runVars, callVars, model_loaded, input_dir,
                   file_i, all_chunks, faults, config, index, web, question, filters, pc,
                   retrieved_docs, sources, relevant, search_results, result_i,
                   all_content, dynamic_content, context, prompt, response, calls>>

\* chunker.py:111-119: all_chunks is written to all_chunks.jsonl and returned
SaveChunks ==
    /\ batch_pc = "folders"
    /\ folder_i >= Len(Subfolders)
    /\ batch_pc' = "saved"
    /\ UNCHANGED <<chunkVars, displayVars, runVars, callVars, model_loaded, input_dir,
                   folder_i, file_i, all_chunks, faults, config, index, web, question,
                   filters, pc, retrieved_docs, sources, relevant, search_results,
                   result_i, all_content, dynamic_content, context, prompt, response,
                   calls>>

BatchNext == EnterFolder \/ ProcessFile \/ LeaveFolder \/ SaveChunks

SpecBatch == BatchInit /\ [][BatchNext]_vars

-----------------------------------------------------------------------------
(* Properties of the chunker *)

\* the sentences of the text and the sentence numbers that closed a chunk
Sentences == SplitSentences(text)
Splits == LoopEnd(chunker, text, <<>>).splits

\* C13: every emitted chunk's stored (stripped) text has at least
\* min_chunk_length characters, the trailing one included.
C13_ChunksMeetMinLength ==
    pc = "chunked" =>
        \A j \in 1..Len(chunks) : Len(chunks[j].text) >= chunker.min_chunk_length

\* the last n words of a word list, none when n = 0
LastWords(words, n) == SubSeq(words, Len(words) - Min(n, Len(words)) + 1, Len(words))

\* the start of the chunk that follows a chunk of text prev: a seed of the
\* last n words of prev, then the sentence that closed prev
SeededStart(prev, n, sentence) ==
    Strip(Join(" ", LastWords(Words(prev), n)) \o " " \o sentence)

\* C14: for consecutive chunks j, j+1, when chunk j has at least
\* chunk_overlap words, chunk j+1 starts with the last chunk_overlap words of
\* chunk j followed by the sentence that triggered the split; the seed never
\* has more than chunk_overlap words.
C14_OverlapSeed ==
    pc = "chunked" =>
        \A j \in 1..(Len(chunks) - 1) :
            LET prev == chunks[j].text
                trigger == Sentences[Splits[j]]
                n == chunker.chunk_overlap
            IN  /\ Len(Words(prev)) >= n =>
                      StartsWith(chunks[j + 1].text, SeededStart(prev, n, trigger))
                /\ \E k \in 0..n :
                      StartsWith(chunks[j + 1].text, SeededStart(prev, k, trigger))

\* C14, the case of a closed chunk with more words than chunk_overlap and
\* chunk_overlap >= 1: the seed is the last chunk_overlap words
C14_SeedWhenMoreWords ==
    pc = "chunked" =>
        \A j \in 1..(Len(chunks) - 1) :
            LET prev == chunks[j].text
                n == chunker.chunk_overlap
            IN  (n >= 1 /\ Len(Words(prev)) > n) =>
                    StartsWith(chunks[j + 1].text,
                               SeededStart(prev, n, Sentences[Splits[j]]))

\* the buffer left at the end of the input is emitted
Flushed == current_chunk # "" /\ Len(current_chunk) >= chunker.min_chunk_length

\* C15: at the end of the input the remaining buffer becomes the final chunk
\* iff it is non-empty and has at least min_chunk_length characters; every
\* buffer closed before it was emitted, so at most the last one is dropped;
\* a text shorter than min_chunk_length yields no chunk.
C15_FlushRule ==
    pc = "chunked" =>
        /\ Len(chunks) = Len(Splits) + (IF Flushed THEN 1 ELSE 0)
        /\ Flushed => chunks[Len(chunks)].text = Strip(current_chunk)
        /\ Len(text) < chunker.min_chunk_length => chunks = <<>>

\* a chunk was emitted and the buffer left at the end was dropped
C15_Witness ==
    /\ pc = "chunked"
    /\ Len(chunks) >= 1
    /\ current_chunk # ""
    /\ ~Flushed

\* the sentences chunk j is built from: FirstOf(j)..LastOf(j)
FirstOf(j) == IF j = 1 THEN 1 ELSE Splits[j - 1]
LastOf(j) == IF j <= Len(Splits) THEN Splits[j] - 1 ELSE Len(Sentences)
WholeSentences(j) == Join(" ", SubSeq(Sentences, FirstOf(j), LastOf(j)))

\* chunk j is whole sentences, consecutive in the text and joined by one
\* space, after a seed of whole words of the chunk before it; the sentences
\* of chunk j+1 start where those of chunk j end
BuiltFromWholeSentences(j) ==
    IF j = 1 THEN chunks[j].text = Strip(WholeSentences(j))
    ELSE /\ FirstOf(j) <= LastOf(j)
         /\ \E k \in 0..Len(Words(chunks[j - 1].text)) :
               chunks[j].text =
                   Strip(Join(" ", LastWords(Words(chunks[j - 1].text), k))
                         \o " " \o WholeSentences(j))

\* sentence i is whole in an emitted chunk built from it
EmittedWhole(i) ==
    \E j \in 1..Len(chunks) :
        /\ FirstOf(j) <= i /\ i <= LastOf(j)
        /\ Contains(chunks[j].text, Strip(Sentences[i]))

LongSentences == {i \in 1..Len(Sentences) : Len(Sentences[i]) > chunker.chunk_size}

\* C16: no sentence is split, chunk boundaries lie between sentences, and
\* every sentence longer than chunk_size is emitted whole inside one chunk.
C16_LongSentenceEmittedWhole ==
    pc = "chunked" =>
        /\ \A j \in 1..Len(chunks) : BuiltFromWholeSentences(j)
        /\ \A i \in LongSentences : EmittedWhole(i)

\* C16 as the code has it: no sentence is split and chunk boundaries lie
\* between sentences; a sentence longer than chunk_size is whole inside one
\* emitted chunk unless it lies in the final buffer and that buffer is
\* dropped for being shorter than min_chunk_length, which needs
\* min_chunk_length > chunk_size.
C16_SentencesNeverSplit ==
    pc = "chunked" =>
        /\ \A j \in 1..Len(chunks) : BuiltFromWholeSentences(j)
        /\ \A i \in LongSentences :
              \/ EmittedWhole(i)
              \/ /\ ~Flushed
                 /\ i >= FirstOf(Len(Splits) + 1)
                 /\ chunker.min_chunk_length > chunker.chunk_size
        /\ chunker.min_chunk_length <= chunker.chunk_size =>
              \A i \in LongSentences : EmittedWhole(i)

\* a sentence longer than chunk_size sits whole in a chunk that exceeds
\* chunk_size, next to another chunk
C16_Witness ==
    /\ pc = "chunked"
    /\ Len(chunks) >= 2
    /\ \E i \in LongSentences : \E j \in 1..Len(chunks) :
          /\ FirstOf(j) <= i /\ i <= LastOf(j)
          /\ Contains(chunks[j].text, Strip(Sentences[i]))
          /\ Len(chunks[j].text) > chunker.chunk_size

-----------------------------------------------------------------------------
(* The sources list of generate_response *)

\* the document names a source
HasSource(doc) == "source" \in DOMAIN doc.metadata /\ doc.metadata["source"] # ""

\* the sources list starts with one entry per retrieved document, in order,
\* equal to Entry(doc); it is complete before the gate and is what the
\* response returns
SourcesFollow(Entry(_)) ==
    pc \notin {"start", "crashed"} =>
        /\ Len(sources) >= Len(retrieved_docs)
        /\ \A i \in 1..Len(retrieved_docs) : sources[i] = Entry(retrieved_docs[i])
        /\ pc = "gate" => Len(sources) = Len(retrieved_docs)
        /\ pc = "done" => Val(response).sources = sources

EntryOrUnknown(doc) == IF HasSource(doc) THEN doc.metadata["source"] ELSE Unknown

EntryByKey(doc) ==
    IF "source" \in DOMAIN doc.metadata THEN doc.metadata["source"] ELSE Unknown

\* C17: sources holds exactly one entry per retrieved document, in retrieval
\* order, the document's metadata.source or "Unknown" when the document has no
\* source; it is built before the gate check and returned in the response.
C17_SourcePerDocument == SourcesFollow(EntryOrUnknown)

\* C17 with "has no source" read as "has no source key": the entry of a
\* document whose source is the empty string is the empty string
C17_SourcePerDocumentByKey == SourcesFollow(EntryByKey)

-----------------------------------------------------------------------------
(* Failures of the collaborators *)

\* the call that was running when an exception left generate_response
CrashedIn(name) == pc = "crashed" /\ calls[Len(calls)] = name
\* a call of that name failed inside
Failed(name) == \E i \in 1..Len(faults) : faults[i] = name

\* C18: search never raises: when the request fails it returns the empty
\* sequence, otherwise at most num_results results (the first ones of the
\* page); after a failed search generate_response goes on to build the prompt
\* and invoke the model.
C18_SearchNeverRaises ==
    /\ ~CrashedIn("search")
    /\ Len(search_results) <= num_results
    /\ \A i \in 1..Len(search_results) :
          search_results[i].title # Val(LongPage.blocks[num_results + 1].title)
    /\ Failed("search") =>
          /\ search_results = <<>>
          /\ dynamic_content = Some(NoWebInfo)
          /\ pc \in {"merge", "build", "invoke", "run", "done"}
          /\ pc = "merge" => ENABLED Merge
          /\ pc = "build" =>
                ~BuildPromptText(config.prompt_template, Val(context), question).raised
          /\ pc = "invoke" => ENABLED InvokeModel
          /\ pc = "run" => ENABLED RunModel
          /\ PastMerge => context = Some(LocalContext)
          /\ pc \in {"invoke", "run", "done"} => ~IsNone(prompt)

\* a call whose search failed has returned its response
C18_Witness ==
    /\ pc = "done"
    /\ faults = <<"search">>
    /\ calls = <<"retrieve", "search", "generate">>
    /\ ~IsNone(response)

\* the numbers of the search results with a usable url, in order
UsableResults == SelectSeq([i \in 1..Len(search_results) |-> i],
                           LAMBDA i : HasUsableUrl(search_results[i]))

\* what extract_content gives for a url whose fetch answers with page, when
\* the error of a failed fetch is e
ExtractedFrom(url, page, e) ==
    CASE page.status = "error" -> "Error extracting content: " \o e
      [] page.status = "nobody" -> "Could not extract meaningful content from " \o url
      [] OTHER -> "Content from " \o url \o ":\n\n" \o page.text

\* C19: extract_content never raises; what it returns depends on the url and
\* its page alone, not on earlier calls; for an unreachable url it is an
\* error string, of the same class each time the url is tried.
C19_ExtractNeverRaises ==
    /\ ~CrashedIn("extract")
    /\ Len(all_content) <= Len(UsableResults)
    /\ \A k \in 1..Len(all_content) :
          LET i == UsableResults[k]
              url == Val(search_results[i].url)
          IN  \E e \in FetchErrors :
                 all_content[k] = SourceEntry(i - 1, url, ExtractedFrom(url, web[url], e))

\* the same unreachable url was tried twice and failed differently
C19_Witness ==
    /\ pc = "merge"
    /\ \E k1, k2 \in 1..Len(all_content) :
          LET u1 == Val(search_results[UsableResults[k1]].url)
              u2 == Val(search_results[UsableResults[k2]].url)
          IN  /\ k1 < k2
              /\ u1 = u2
              /\ web[u1].status = "error"
              /\ Contains(all_content[k1], "Error extracting content: timed out")
              /\ Contains(all_content[k2], "Error extracting content: connection refused")

\* the answers a failed generate call gives
GenerateErrors ==
    {ModelNotLoaded} \cup {"Error during text generation: " \o llm.err : llm \in LLMs}

\* the sources gathered up to the model call
GatheredSources ==
    CollectSources(retrieved_docs)
    \o (IF UseDynamic(dynamic_content) THEN <<DynamicTag>> ELSE <<>>)

\* C20: a failed generate call does not leave generate_response as an
\* exception: the answer is the error string, and the response is the
\* envelope {question, answer, sources, used_dynamic_search} with the sources
\* gathered before the model call.
C20_GenerateFailureIsAnswer ==
    /\ ~CrashedIn("generate")
    /\ Failed("generate") =>
          /\ pc = "done"
          /\ Val(response).answer \in GenerateErrors
    /\ pc = "done" =>
          /\ DOMAIN Val(response) = {"question", "answer", "sources", "used_dynamic_search"}
          /\ Val(response).question = question
          /\ Val(response).sources = GatheredSources
          /\ Val(response).sources = sources
          /\ Val(response).used_dynamic_search \in BOOLEAN
          /\ ~Failed("generate") => Val(response).answer \notin GenerateErrors

\* the model run raised after a dynamic search that produced content
C20_Witness ==
    /\ pc = "done"
    /\ Failed("generate")
    /\ Val(response).answer = "Error during text generation: out of memory"
    /\ Len(retrieved_docs) >= 1
    /\ HasTag
    /\ Val(response).sources = GatheredSources

-----------------------------------------------------------------------------
(* The calls of one generate_response *)

\* how often the collaborator call of that name was made
Count(name) == Cardinality({i \in 1..Len(calls) : calls[i] = name})

\* the results with a usable url among the first n
UsableUpTo(n) == Cardinality({i \in 1..n : HasUsableUrl(search_results[i])})

PipelineEdges ==
    { <<"start", "gate">>, <<"start", "crashed">>, <<"gate", "search">>, <<"gate", "local">>,
      <<"search", "extract">>, <<"search", "merge">>, <<"extract", "extract">>,
      <<"extract", "merge">>, <<"merge", "build">>, <<"local", "build">>,
      <<"build", "invoke">>, <<"invoke", "run">>, <<"invoke", "done">>,
      <<"run", "done">> }

\* one step of the pipeline keeps the order of the stages
OrderedStep ==
    /\ <<pc, pc'>> \in PipelineEdges
    /\ pc' = "gate" => calls' = <<"retrieve">>
    /\ pc' = "search" => relevant' = Some(FALSE)
    /\ pc' = "local" =>
          /\ relevant' \in {Some(TRUE), None}
          /\ relevant' = None => ~config.dynamic_search_enabled
          /\ calls' = <<"retrieve">>
    /\ calls' # calls =>
          LET name == calls'[Len(calls')]
          IN  /\ calls' = Append(calls, name)
              /\ name = "retrieve" => calls = <<>>
              /\ name = "search" => calls = <<"retrieve">> /\ relevant = Some(FALSE)
              /\ name = "extract" =>
                    /\ Count("search") = 1
                    /\ IsNone(context) /\ IsNone(prompt)
              /\ name = "generate" =>
                    /\ ~IsNone(context)
                    /\ prompt = Some(BuildPromptText(config.prompt_template,
                                                     Val(context), question).value)
    /\ pc = "local" => pc' = "build" /\ IsNone(dynamic_content)
    /\ pc \in {"build", "invoke", "run"} => context' = context /\ sources' = sources
    /\ pc \in {"invoke", "run"} => prompt' = prompt

\* C22: the steps of one request are strictly ordered: retrieval before the
\* gate, the search only after the gate judged the local documents
\* insufficient, every extraction after the search and before the prompt is
\* built, the model call only after the final context is assembled, and from a
\* sufficient gate straight to the prompt.
C22_StepsOrdered == [][OrderedStep]_vars

\* a call that went through search, two extractions and the merge
C22_Witness ==
    /\ pc = "done"
    /\ relevant = Some(FALSE)
    /\ calls = <<"retrieve", "search", "extract", "extract", "generate">>
    /\ HasTag
    /\ Len(retrieved_docs) = 1

\* the envelope generate_response returns
Envelope ==
    /\ ~IsNone(response)
    /\ DOMAIN Val(response) = {"question", "answer", "sources", "used_dynamic_search"}

\* C23: whatever the collaborators do (retrieval, search, extraction or model
\* failure), the call goes on until it is done and has returned the envelope;
\* no exception leaves generate_response.
C23_AlwaysReturns ==
    /\ pc # "crashed"
    /\ pc # "done" => ENABLED Next
    /\ pc = "done" => Envelope

\* without a failure of the collection query the call goes on until it has
\* returned the envelope
C23_ReturnsUnlessRetrieveFails ==
    /\ pc = "crashed" => faults = <<"retrieve">> /\ calls = <<"retrieve">>
    /\ pc \notin {"done", "crashed"} => ENABLED Next
    /\ pc = "done" => Envelope

-----------------------------------------------------------------------------
(* The prompt of generate_response, generator.py:113-131: the call has        *)
(* assembled its context on the local-only branch and stands before line 113 *)

\* configured templates: none, both placeholders, one placeholder each, both
\* placeholders next to a JSON example, and both placeholders in doubled braces
PromptTemplates ==
    Templates \cup
    { "Context: {context}\nAnswer briefly.",
      "Question: {question}\nAnswer:",
      "Reply as {\"answer\": \"...\"}.\n{context}\nQuestion: {question}",
      "Fill in {{context}} and {{question}}." }

PromptQuestions == Questions \cup {"What does {context} mean in a template?"}

PromptInit ==
    /\ config \in [dynamic_search_enabled : {FALSE}, top_k : {DefaultTopK},
                   prompt_template : PromptTemplates, min_relevance_score : {"0.6"}]
    /\ index \in Indexes
    /\ web = WebDown
    /\ question \in PromptQuestions
    /\ filters = None
    /\ pc = "build"
    /\ retrieved_docs = retrieve(index, question, filters, config.top_k)
    /\ sources = CollectSources(retrieved_docs)
    /\ relevant = None
    /\ search_results = <<>>
    /\ result_i = 0
    /\ all_content = <<>>
    /\ dynamic_content = None
    /\ context = Some(format_for_prompt(retrieved_docs))
    /\ prompt = None
    /\ response = None
    /\ calls = <<"retrieve">>
    /\ faults = <<>>
    /\ ChunkerIdle
    /\ OneCall
    /\ DisplayIdle
    /\ BatchIdle
    /\ RunIdle

SpecPrompt == PromptInit /\ [][BuildPrompt]_vars

RECURSIVE Substituted(_, _, _)
\* template t with every {context} replaced by ctx and every {question} by q
Substituted(t, ctx, q) ==
    LET kc == FindFrom(t, "{context}", 0)
        kq == FindFrom(t, "{question}", 0)
    IN  IF kc < 0 /\ kq < 0 THEN t
        ELSE IF kq < 0 \/ (kc >= 0 /\ kc < kq)
        THEN Prefix(t, kc) \o ctx \o Substituted(Suffix(t, kc + Len("{context}")), ctx, q)
        ELSE Prefix(t, kq) \o q \o Substituted(Suffix(t, kq + Len("{question}")), ctx, q)

\* p occurs in s
Occurs(s, p) == \E i \in 0..(Len(s) - Len(p)) : SubSeq(s, i + 1, i + Len(p)) = p

HasBothPlaceholders(t) == Contains(t, "{context}") /\ Contains(t, "{question}")

\* the prompt is the template with context and question substituted when the
\* template has both placeholders, the fixed fallback otherwise, and holds
\* the context and the question
PromptAsConfigured ==
    LET t == config.prompt_template
        ctx == Val(context)
    IN  /\ HasBothPlaceholders(t) => prompt = Some(Substituted(t, ctx, question))
        /\ ~HasBothPlaceholders(t) => prompt = Some(DefaultPrompt(ctx, question))
        /\ Occurs(Val(prompt), ctx)
        /\ Occurs(Val(prompt), question)

\* C24: the configured template is used iff it contains both {context} and
\* {question}, with the context and the question substituted; otherwise the
\* fixed fallback is used; either way a prompt holding the context and the
\* question is passed on to the model.
C24_TemplateOrFallback ==
    /\ pc # "crashed"
    /\ pc = "invoke" => PromptAsConfigured

\* templates whose only braces are those of the two placeholders
PlainTemplate(t) == Substituted(t, "", "") = Substituted(Substituted(t, "", ""), "", "")
                    /\ ~Contains(Substituted(t, "", ""), "{")
                    /\ ~Contains(Substituted(t, "", ""), "}")

\* C24 for templates without other braces
C24_PlainTemplateOrFallback ==
    PlainTemplate(config.prompt_template) =>
        /\ pc # "crashed"
        /\ pc = "invoke" => PromptAsConfigured

-----------------------------------------------------------------------------
(* Two calls at once *)

\* the locals c are what the call has when it runs alone with the same answers
\* of the collection, the search and the pages
Alone(c) ==
    LET docs == retrieve(index, c.question, c.filters, config.top_k)
        local == format_for_prompt(docs)
        merged == c.pc \in {"build", "invoke", "run", "done"}
        tagged == merged /\ UseDynamic(c.dynamic_content)
    IN  /\ c.pc \in {"start", "crashed"} =>
              [c EXCEPT !.pc = "start", !.faults = <<>>, !.calls = <<>>] = Fresh(c.question)
        /\ c.pc \notin {"start", "crashed"} =>
              /\ c.retrieved_docs = docs
              /\ c.sources = CollectSources(docs)
                             \o (IF tagged THEN <<DynamicTag>> ELSE <<>>)
        /\ c.pc \in {"gate", "search", "local"} => c.dynamic_content = None
        /\ c.pc \in {"extract", "merge"} \/ (merged /\ ~IsNone(c.dynamic_content)) =>
              /\ \E resp \in net : c.search_results = search(resp, num_results).value
              /\ Len(c.all_content) <= Len(c.search_results)
              /\ \A k \in 1..Len(c.all_content) :
                    \E u \in Urls : \E page \in Fetch(web[u]) :
                       c.all_content[k] = SourceEntry(k - 1, u, extract_content(u, page).value)
              /\ c.pc # "extract" =>
                    c.dynamic_content =
                       Some(IF Len(c.search_results) = 0 THEN NoWebInfo
                            ELSE Truncate(Join("\n", c.all_content)))
        /\ merged =>
              /\ c.context = Some(IF tagged THEN MergeContext(local, Val(c.dynamic_content))
                                  ELSE local)
              /\ c.pc # "build" =>
                    c.prompt = Some(BuildPromptText(config.prompt_template,
                                                    Val(c.context), c.question).value)
        /\ IF c.pc = "done"
           THEN /\ Val(c.response).question = c.question
                /\ Val(c.response).sources = c.sources
                /\ Val(c.response).used_dynamic_search = UsedDynamicSearch(c.dynamic_content)
                /\ Val(c.response).answer \in GenerateErrors \cup {llm.output : llm \in LLMs}
           ELSE IsNone(c.response)

\* C25: two calls of generate_response on the same Generator that interleave
\* are independent: at every point the sources, the dynamic content, the
\* context, the prompt and the returned envelope of each call are those of the
\* call running alone on its own question; nothing one call writes reaches
\* the other.
C25_CallsIndependent ==
    ~IsNone(other) =>
        /\ question = CallQuestions[me]
        /\ Val(other).question = CallQuestions[3 - me]
        /\ Alone(Running)
        /\ Alone(Val(other))

\* the first call ran from its first statement to its return, with web
\* content, between two steps of the second call, whose search had failed
C25_Witness ==
    /\ ~IsNone(other)
    /\ me = 1
    /\ pc = "done"
    /\ HasTag
    /\ Val(response).used_dynamic_search
    /\ Val(response).question = CallQuestions[1]
    /\ Val(other).pc = "merge"
    /\ Val(other).dynamic_content = Some(NoWebInfo)
    /\ Val(other).faults = <<"search">>

-----------------------------------------------------------------------------
(* Display of the sources *)

\* how often p occurs in s
Occurrences(s, p) ==
    Cardinality({i \in 0..(Len(s) - Len(p)) : SubSeq(s, i + 1, i + Len(p)) = p})

\* the distinct raw sources that are neither empty nor "Unknown"
DisplayedSet ==
    {x \in {Val(response).sources[i] : i \in 1..Len(Val(response).sources)} :
        Displayable(x)}

\* how often a display path has to show the source x
Times(x) == IF x \in DisplayedSet THEN 1 ELSE 0

\* C26: for every raw sources list both display paths show each distinct
\* source once, whatever its number of occurrences in the list, and show
\* neither "Unknown" nor an empty source.
C26_ShownOnce ==
    /\ ~IsNone(formatted_response) =>
          \A x \in SourceValues :
             Occurrences(Val(formatted_response), ". " \o x \o "\n") = Times(x)
    /\ ~IsNone(sources_html) =>
          \A x \in SourceValues :
             Occurrences(Val(sources_html), "<li>" \o x \o "</li>") = Times(x)

\* both paths have shown a list with a repeated reference, "Unknown" in
\* between, after a dynamic search
C26_Witness ==
    /\ Val(response).sources = <<"https://example.com/a", "Unknown", "https://example.com/a">>
    /\ Val(response).used_dynamic_search
    /\ ~IsNone(formatted_response)
    /\ ~IsNone(sources_html)
    /\ Occurrences(Val(formatted_response), "https://example.com/a") = 1
    /\ Occurrences(Val(sources_html), "https://example.com/a") = 1

-----------------------------------------------------------------------------
(* The batch of files *)

\* the doc_id of the file number j of the subfolder number i
DocId(i, j) == Subfolders[i] \o "_" \o Val(input_dir[Subfolders[i]])[j].name

\* the processing of that file failed
FileFailed(i, j) == \E k \in 1..Len(faults) : faults[k] = DocId(i, j)

\* the chunks the file number j of the subfolder number i has to contribute
FileChunks(i, j) ==
    LET file == Val(input_dir[Subfolders[i]])[j]
    IN  IF ~EndsWith(file.name, ".txt") \/ FileFailed(i, j) THEN <<>>
        ELSE LET parsed == SplitSource(Val(file.content))
             IN  _chunk_text(chunker, parsed.content,
                             FileMetadata(Subfolders[i], file.name, parsed.source))

RECURSIVE FolderChunks(_, _)
\* the chunks of the first n files of the subfolder number i, in listing order
FolderChunks(i, n) ==
    IF IsNone(input_dir[Subfolders[i]]) \/ n = 0 THEN <<>>
    ELSE FolderChunks(i, n - 1) \o FileChunks(i, n)

\* the number of names in the subfolder number i
FileCount(i) ==
    IF IsNone(input_dir[Subfolders[i]]) THEN 0 ELSE Len(Val(input_dir[Subfolders[i]]))

RECURSIVE BatchChunks(_)
\* the chunks of the first n subfolders
BatchChunks(n) ==
    IF n = 0 THEN <<>> ELSE BatchChunks(n - 1) \o FolderChunks(n, FileCount(n))

\* C27: a file that cannot be read or chunked is skipped and contributes no
\* chunk; every other .txt file of every existing subfolder contributes its
\* chunks, in processing order; no file makes process_files end with an
\* exception.
C27_BatchSurvives ==
    batch_pc # "idle" =>
        /\ batch_pc \in {"folders", "files", "saved"}
        /\ all_chunks = BatchChunks(folder_i)
                        \o (IF batch_pc = "files" THEN FolderChunks(folder_i + 1, file_i)
                            ELSE <<>>)
        /\ batch_pc = "saved" => folder_i = Len(Subfolders)
        /\ \A k \in 1..Len(all_chunks) :
              \A f \in 1..Len(faults) : all_chunks[k].metadata.doc_id # faults[f]

\* the batch ended after the first file of the first subfolder failed; the
\* file after it and the file of the last subfolder gave their chunks
C27_Witness ==
    /\ batch_pc = "saved"
    /\ faults = <<"web_bad.txt">>
    /\ FileCount(1) = 2
    /\ Val(input_dir["web"])[1].name = "bad.txt"
    /\ Val(input_dir["web"])[2].name = "b.txt"
    /\ IsNone(input_dir["pdf_extracted"])
    /\ ~IsNone(input_dir["youtube"])
    /\ Len(all_chunks) >= 2
    /\ all_chunks[1].metadata.doc_id = "web_b.txt"
    /\ all_chunks[Len(all_chunks)].metadata.doc_id = "youtube_a.txt"
    /\ all_chunks[Len(all_chunks)].metadata.source = "http://a"

-----------------------------------------------------------------------------
(* The tag in the returned sources *)

\* C28: in a returned response the tag "Dynamic Web Search" occurs at most
\* once in sources, as the last element after the sources of the documents;
\* when it is there, used_dynamic_search is true and the context the prompt
\* was built from contains the dynamic content.
C28_TagLastAndBacked ==
    pc = "done" =>
        LET srcs == Val(response).sources
            n == Len(srcs)
        IN  /\ \A i \in 1..n : srcs[i] = DynamicTag => i = n
            /\ (n > 0 /\ srcs[n] = DynamicTag) =>
                  /\ SubSeq(srcs, 1, n - 1) = CollectSources(retrieved_docs)
                  /\ Val(response).used_dynamic_search
                  /\ ~IsNone(dynamic_content)
                  /\ Val(dynamic_content) # ""
                  /\ EndsWith(Val(context), Val(dynamic_content))
                  /\ prompt = Some(BuildPromptText(config.prompt_template,
                                                   Val(context), question).value)

\* a response with the sources of two documents and then the tag, its
\* context the documents followed by the web content
C28_Witness ==
    /\ pc = "done"
    /\ Len(retrieved_docs) = 2
    /\ Len(Val(response).sources) = 3
    /\ Val(response).sources[3] = DynamicTag
    /\ Val(response).used_dynamic_search
    /\ Len(Val(context)) > Len(Val(dynamic_content))
    /\ EndsWith(Val(context), Val(dynamic_content))

-----------------------------------------------------------------------------
(* No sentence is lost *)

\* sentence i lies in the buffer that was left at the end of the text and
\* dropped for being shorter than min_chunk_length
InDroppedBuffer(i) == ~Flushed /\ i >= FirstOf(Len(Splits) + 1)

\* C29: every sentence of the text is whole in an emitted chunk, or lies in
\* the final buffer that was dropped for being shorter than min_chunk_length;
\* the chunks hold the sentences in the order of the text: chunk j holds,
\* after the seed, the sentences from where chunk j-1 ended, consecutively.
C29_NoSentenceLost ==
    pc = "chunked" =>
        /\ \A i \in 1..Len(Sentences) : EmittedWhole(i) \/ InDroppedBuffer(i)
        /\ \A j \in 1..Len(chunks) :
              /\ BuiltFromWholeSentences(j)
              /\ j > 1 => FirstOf(j) = LastOf(j - 1) + 1
        /\ Len(chunks) > 0 => FirstOf(1) = 1
        /\ Flushed => LastOf(Len(chunks)) = Len(Sentences)

\* two chunks were emitted and the sentence after them was in the buffer that
\* was dropped
C29_Witness ==
    /\ pc = "chunked"
    /\ Len(chunks) = 2
    /\ Len(Sentences) = 3
    /\ InDroppedBuffer(3)
    /\ Sentences[3] # ""
    /\ EmittedWhole(1)
    /\ EmittedWhole(2)
    /\ \A j \in 1..Len(chunks) : ~Contains(chunks[j].text, Sentences[3])

-----------------------------------------------------------------------------
(* The stages of run.py *)

\* the place of a stage function in the order of main
Rank(stage) ==
    CASE stage = "collect_data" -> 1
      [] stage = "process_data" -> 2
      [] stage = "create_embeddings" -> 3
      [] stage \in {"build_vector_db", "logger.error"} -> 4
      [] stage = "download_llm_model" -> 5
      [] stage \in {"run_app", "print_help"} -> 6

\* the stage function was called
Ran(stage) == \E k \in 1..Len(stage_log) : stage_log[k].stage = stage

\* main is past the block of that rank
Past(rank) ==
    rank < (CASE run_pc = "collect" -> 1 [] run_pc = "process" -> 2
              [] run_pc = "embed" -> 3 [] run_pc = "build_db" -> 4
              [] run_pc = "check_model" -> 5 [] run_pc = "app" -> 6
              [] run_pc = "end" -> 7)

\* C30: for every combination of flags the stage functions are called in the
\* order collect, process, embed, build-db, check-model, app, each at most
\* once; create_embeddings gets the chunks process_data returned in this run,
\* processing being run on demand when it was not selected; build_vector_db
\* gets a non-empty list of embedded chunks, those just created or those of
\* the embeddings file, and otherwise the error is logged in its place.
C30_StagesInOrder ==
    run_pc # "idle" =>
        /\ \A j, k \in 1..Len(stage_log) :
              j < k => Rank(stage_log[j].stage) < Rank(stage_log[k].stage)
        /\ \A k \in 1..Len(stage_log) : Past(Rank(stage_log[k].stage))
        /\ Past(1) => (Ran("collect_data") <=> args.all \/ args.collect)
        /\ Past(3) => (Ran("process_data") <=> args.all \/ args.process \/ args.embed)
        /\ Past(3) => (Ran("create_embeddings") <=> args.all \/ args.embed)
        /\ Past(4) => (Ran("build_vector_db") \/ Ran("logger.error")
                          <=> args.all \/ args.build_db)
        /\ Past(5) => (Ran("download_llm_model") <=> args.all \/ args.check_model)
        /\ Past(6) => (Ran("run_app") <=> args.all \/ args.app)
        /\ \A k \in 1..Len(stage_log) :
              stage_log[k].stage = "create_embeddings" =>
                 \E j \in 1..(k - 1) :
                    /\ stage_log[j].stage = "process_data"
                    /\ stage_log[j].result = stage_log[k].arg
                    /\ stage_log[k].arg = process_data(disk)
        /\ \A k \in 1..Len(stage_log) :
              stage_log[k].stage = "build_vector_db" =>
                 /\ Len(stage_log[k].arg) > 0
                 /\ stage_log[k].arg = load_embeddings(disk)
                 /\ \A j \in 1..(k - 1) :
                       stage_log[j].stage = "create_embeddings" =>
                          stage_log[k].arg = stage_log[j].result
        /\ \A k \in 1..Len(stage_log) :
              stage_log[k].stage = "logger.error" =>
                 /\ load_embeddings(disk) = <<>>
                 /\ Val(embedded_chunks) = <<>>

\* --embed --build-db --app: processing ran on demand, once, the embeddings of
\* its chunks went into the vector database, then the app
C30_Witness ==
    /\ run_pc = "end"
    /\ ~args.all /\ ~args.process /\ ~args.collect /\ ~args.check_model
    /\ args.embed /\ args.build_db /\ args.app
    /\ Len(stage_log) = 4
    /\ stage_log[1].stage = "process_data"
    /\ stage_log[2] = Called("create_embeddings", stage_log[1].result,
                             create_embeddings(stage_log[1].result))
    /\ stage_log[3] = Called("build_vector_db", stage_log[2].result, None)
    /\ Len(stage_log[3].arg) = 2
    /\ stage_log[4].stage = "run_app"

====
